---- MODULE Spec2Model ----
\* Model of the nutrition service (server/src/services/nutrition.ts): the two
\* module-level TTL caches, the store of meals behind prisma, and the service
\* operations as interleaved asynchronous handlers, one step per await.
EXTENDS Integers, Sequences, FiniteSets, TLC

VARIABLES
    meals,          \* the store: meal_id -> stored meal row (prisma.meal)
    users,          \* the store: user_id -> user row (prisma.user)
    userStatsCache, \* Map<string, {data, timestamp}> of statistics
    mealsCache,     \* Map<string, {data, timestamp}> of meal lists
    now,            \* Date.now(), in milliseconds
    procs,          \* the in-flight service calls, one record per request slot
    immediates,     \* callbacks queued by setImmediate and not yet run
    wseq,           \* history: per owner, the number of store writes to the owner's meals
    retSeq,         \* history: per owner, the writes covered by mutations that have returned
    writes,         \* history: who wrote rows of whom
    started,        \* history: the number of service calls started
    last,           \* history: the call that has just returned or thrown, if any
    budget          \* the number of service calls the workload makes

vars == <<meals, users, userStatsCache, mealsCache, now, procs, immediates,
          wseq, retSeq, writes, started, last, budget>>

----------------------------------------------------------------------------
\* Bounds of the model

MaxOps == 3         \* service calls started in one behaviour of a read workload
MaxCalls == 2       \* service calls started in one behaviour of a mutation workload
MaxTicks == 2       \* clock advances in one behaviour
MaxMeals == 3       \* rows the meal table can hold

\* request slots: at most two calls are in flight at a time
Procs == {1, 2}

----------------------------------------------------------------------------
\* Strings are sequences of characters, so that key construction and
\* String.prototype.includes are computed, not assumed.

Digits == <<"0", "1", "2", "3", "4", "5", "6", "7", "8", "9">>

RECURSIVE NatToStr(_)
NatToStr(n) ==
    IF n < 10 THEN <<Digits[n + 1]>>
    ELSE NatToStr(n \div 10) \o <<Digits[(n % 10) + 1]>>

Includes(s, sub) ==
    \E i \in 0..(Len(s) - Len(sub)) : SubSeq(s, i + 1, i + Len(sub)) = sub

U1 == <<"1">>
U11 == <<"1", "1">>
\* two users, the id of the first a substring of the id of the second
UserIds == {U1, U11}

----------------------------------------------------------------------------
\* Time and dates. Millisecond 0 of the model is 2024-01-02T00:00:00.000Z.

CACHE_DURATION == 5 * 60 * 1000

DayMs == 24 * 60 * 60 * 1000

D1 == <<"2", "0", "2", "4", "-", "0", "1", "-", "0", "2">>
D2 == <<"2", "0", "2", "4", "-", "0", "1", "-", "0", "3">>
IsoDates == <<D1, D2>>

\* created_at.toISOString().split("T")[0]: the UTC calendar day of an instant
IsoDay(t) == IsoDates[(t \div DayMs) + 1]

\* new Date("YYYY-MM-DD"): UTC midnight of that day
ParseDate(d) == (CHOOSE i \in 1..Len(IsoDates) : IsoDates[i] = d) - 1

DayStart(d) == ParseDate(d) * DayMs
DayEnd(d) == ParseDate(d) * DayMs + (DayMs - 1)

\* The clock starts at noon of the second day and advances by half a TTL.
NowBase == DayMs + (DayMs \div 2)
TickMs == CACHE_DURATION \div 2

----------------------------------------------------------------------------
\* JSON-like objects are functions from field names to values; a field that
\* is null or undefined is a field outside the DOMAIN.

EmptyObj == <<>>

Has(o, f) == f \in DOMAIN o

\* numeric `o[f] || 0`
Or0(o, f) == IF Has(o, f) THEN o[f] ELSE 0

\* numeric `o[f] || o[g] || 0`
Or2(o, f, g) ==
    IF Has(o, f) /\ o[f] # 0 THEN o[f]
    ELSE IF Has(o, g) /\ o[g] # 0 THEN o[g]
    ELSE 0

\* { ...a, ...b }
Spread(a, b) ==
    [k \in (DOMAIN a) \cup (DOMAIN b) |-> IF k \in DOMAIN b THEN b[k] ELSE a[k]]

\* object with field f set to v
With(o, f, v) == [k \in (DOMAIN o) \cup {f} |-> IF k = f THEN v ELSE o[k]]

\* object restricted to the fields in S that it has (a prisma select)
Select(o, S) == [k \in (DOMAIN o) \cap S |-> o[k]]

----------------------------------------------------------------------------
\* The caches: a Map is a function whose DOMAIN is the set of keys it holds.

\* `user_meals_${user_id}_${offset}_${limit}`
UserMealsKey(user_id, offset, limit) ==
    <<"u", "s", "e", "r", "_", "m", "e", "a", "l", "s", "_">> \o user_id \o <<"_">>
        \o NatToStr(offset) \o <<"_">> \o NatToStr(limit)

\* `stats_${userId}_${startDate}_${endDate}`
RangeKey(userId, startDate, endDate) ==
    <<"s", "t", "a", "t", "s", "_">> \o userId \o <<"_">> \o startDate \o <<"_">> \o endDate

\* `daily_${user_id}_${date}`
DailyKey(user_id, date) == <<"d", "a", "i", "l", "y", "_">> \o user_id \o <<"_">> \o date

EmptyCache == [k \in {} |-> 0]

\* Map.prototype.set
CacheSet(cache, key, entry) ==
    [k \in (DOMAIN cache) \cup {key} |-> IF k = key THEN entry ELSE cache[k]]

FreshLoose(entry, t) == t - entry.timestamp <= CACHE_DURATION

\* Date.now() - cached.timestamp < CACHE_DURATION
Fresh(entry, t) == t - entry.timestamp < CACHE_DURATION

\* cached && Date.now() - cached.timestamp < CACHE_DURATION
IsHit(cache, key, t) == key \in DOMAIN cache /\ Fresh(cache[key], t)

ClearNothing(cache, user_id) == cache

\* clearUserCaches / clearUserMealsCaches: delete every key that includes user_id
ClearByUser(cache, user_id) ==
    [k \in {key \in DOMAIN cache : ~Includes(key, user_id)} |-> cache[k]]

----------------------------------------------------------------------------
\* Stored meal rows and the mapping of analysis data to them

\* numericFields of getRangeStatistics, in source order
NumericFields ==
    <<"calories", "protein_g", "carbs_g", "fats_g", "saturated_fats_g",
      "polyunsaturated_fats_g", "monounsaturated_fats_g", "omega_3_g",
      "omega_6_g", "fiber_g", "soluble_fiber_g", "insoluble_fiber_g",
      "sugar_g", "cholesterol_mg", "sodium_mg", "alcohol_g", "caffeine_mg",
      "liquids_ml", "serving_size_g", "glycemic_index", "insulin_index",
      "confidence">>

NumericFieldSet == {NumericFields[i] : i \in 1..Len(NumericFields)}

\* the fields mapMealDataToPrismaFields copies as `mealData.f || 0`
PlainFields ==
    {"calories", "saturated_fats_g", "polyunsaturated_fats_g",
     "monounsaturated_fats_g", "omega_3_g", "omega_6_g", "soluble_fiber_g",
     "insoluble_fiber_g", "cholesterol_mg", "alcohol_g", "caffeine_mg",
     "liquids_ml", "serving_size_g", "glycemic_index", "insulin_index"}

\* the fields mapMealDataToPrismaFields copies as `mealData.f_g || mealData.f || 0`
AliasOf ==
    [protein_g |-> "protein", carbs_g |-> "carbs", fats_g |-> "fat",
     fiber_g |-> "fiber", sugar_g |-> "sugar", sodium_mg |-> "sodium"]

\* string `o[f] || dflt`
StrOr(o, f, dflt) == IF Has(o, f) /\ o[f] # "" THEN o[f] ELSE dflt

\* An array value and a string value of the ingredients column
ArrayOf(items) == [kind |-> "array", items |-> items]

IsArray(v) == v.kind = "array"

DataUrlPrefix ==
    <<"d", "a", "t", "a", ":", "i", "m", "a", "g", "e", "/", "j", "p", "e", "g",
      ";", "b", "a", "s", "e", "6", "4", ",">>

\* mapMealDataToPrismaFields(mealData, user_id, imageBase64, mealType, mealPeriod)
\* at instant t; mealType is not read by the function. imageBase64 and
\* mealPeriod are empty when not supplied.
MapMealDataToPrismaFields(mealData, user_id, imageBase64, mealPeriod, t) ==
    LET ingredients ==
            IF Has(mealData, "ingredients") /\ IsArray(mealData.ingredients)
            THEN mealData.ingredients.items ELSE <<>>
        finalMealPeriod ==
            IF mealPeriod # "" THEN mealPeriod
            ELSE IF Has(mealData, "mealPeriod") /\ mealData.mealPeriod # ""
                 THEN mealData.mealPeriod
            ELSE StrOr(mealData, "meal_period", "other")
        image == IF imageBase64 # <<>>
                 THEN [image_url |-> DataUrlPrefix \o imageBase64]
                 ELSE EmptyObj
        plain == [f \in PlainFields |-> Or0(mealData, f)]
        aliased == [f \in DOMAIN AliasOf |-> Or2(mealData, f, AliasOf[f])]
        \* the JSON columns are copied as `mealData.f || {}`, the text columns as `|| ""`
        json == [f \in {"allergens_json", "vitamins_json", "micronutrients_json",
                        "additives_json"} |->
                    IF Has(mealData, f) THEN mealData[f] ELSE EmptyObj]
        text == [f \in {"food_category", "processing_level", "cooking_method",
                        "health_risk_notes"} |-> StrOr(mealData, f, "")]
        rest ==
            [user_id |-> user_id,
             upload_time |-> t,
             analysis_status |-> "COMPLETED",
             meal_name |-> IF Has(mealData, "meal_name") /\ mealData.meal_name # ""
                           THEN mealData.meal_name
                           ELSE StrOr(mealData, "name", "Unknown Meal"),
             confidence |-> IF Or0(mealData, "confidence") # 0
                            THEN mealData.confidence ELSE 75,
             ingredients |-> ArrayOf(ingredients),
             created_at |-> t,
             meal_period |-> finalMealPeriod]
    IN  Spread(Spread(Spread(Spread(Spread(rest, image), plain), aliased), json), text)

----------------------------------------------------------------------------
\* Read models

\* JSON.parse of a string value of the ingredients column: parses or throws
JsonParses(v) == v.parses

\* transformMealForClient, its "safely parse ingredients" block
SafeIngredients(meal) ==
    IF ~Has(meal, "ingredients") THEN <<>>
    ELSE IF IsArray(meal.ingredients) THEN meal.ingredients.items
    ELSE IF JsonParses(meal.ingredients) THEN meal.ingredients.items
    ELSE <<>>

\* boolean `o[f] || false`
BoolOr(o, f) == Has(o, f) /\ o[f] = TRUE

\* `o[f] || {}`
ObjOr(o, f) == IF Has(o, f) THEN o[f] ELSE EmptyObj

transformMealForClient(meal) ==
    LET additives == ObjOr(meal, "additives_json")
        feedback == ObjOr(additives, "feedback")
        copied == Select(meal, {"meal_id", "user_id", "image_url", "upload_time",
                                "analysis_status", "meal_name", "calories", "protein_g",
                                "carbs_g", "fats_g", "fiber_g", "sugar_g", "sodium_mg",
                                "created_at"})
        renamed ==
            (IF Has(meal, "meal_name") THEN [description |-> meal.meal_name] ELSE EmptyObj)
        image == (IF Has(meal, "image_url") THEN [imageUrl |-> meal.image_url] ELSE EmptyObj)
        derived ==
            [id |-> NatToStr(meal.meal_id),
             name |-> StrOr(meal, "meal_name", "Unknown Meal"),
             protein |-> Or0(meal, "protein_g"),
             carbs |-> Or0(meal, "carbs_g"),
             fat |-> Or0(meal, "fats_g"),
             fiber |-> Or0(meal, "fiber_g"),
             sugar |-> Or0(meal, "sugar_g"),
             sodium |-> Or0(meal, "sodium_mg"),
             userId |-> meal.user_id,
             ingredients |-> SafeIngredients(meal),
             isFavorite |-> BoolOr(additives, "isFavorite"),
             is_favorite |-> BoolOr(additives, "isFavorite"),
             tasteRating |-> Or0(feedback, "tasteRating"),
             satietyRating |-> Or0(feedback, "satietyRating"),
             energyRating |-> Or0(feedback, "energyRating"),
             heavinessRating |-> Or0(feedback, "heavinessRating"),
             taste_rating |-> Or0(feedback, "tasteRating"),
             satiety_rating |-> Or0(feedback, "satietyRating"),
             energy_rating |-> Or0(feedback, "energyRating"),
             heaviness_rating |-> Or0(feedback, "heavinessRating"),
             meal_period |-> StrOr(meal, "meal_period", "other"),
             mealPeriod |-> StrOr(meal, "meal_period", "other")]
    IN  Spread(Spread(Spread(copied, renamed), image), derived)

\* the select of getUserMeals
UserMealsSelect ==
    {"meal_id", "user_id", "image_url", "upload_time", "analysis_status", "meal_name",
     "meal_period", "calories", "protein_g", "carbs_g", "fats_g", "saturated_fats_g",
     "polyunsaturated_fats_g", "monounsaturated_fats_g", "omega_3_g", "omega_6_g",
     "fiber_g", "soluble_fiber_g", "insoluble_fiber_g", "sugar_g", "cholesterol_mg",
     "sodium_mg", "alcohol_g", "caffeine_mg", "liquids_ml", "serving_size_g",
     "allergens_json", "vitamins_json", "micronutrients_json", "glycemic_index",
     "insulin_index", "food_category", "processing_level", "confidence",
     "cooking_method", "additives_json", "health_risk_notes", "ingredients",
     "created_at", "updated_at"}

\* whether the map callback of getUserMeals throws on this row (JSON.parse)
ProcessThrows(meal) ==
    Has(meal, "ingredients") /\ ~IsArray(meal.ingredients) /\ ~JsonParses(meal.ingredients)

\* the map callback of getUserMeals, on a selected row whose callback does not throw
ProcessedMeal(meal) ==
    LET renames == [name |-> "meal_name", imageUrl |-> "image_url",
                    uploadTime |-> "upload_time", createdAt |-> "created_at",
                    protein |-> "protein_g", carbs |-> "carbs_g", fat |-> "fats_g",
                    fats |-> "fats_g", fiber |-> "fiber_g", sugar |-> "sugar_g",
                    sodium |-> "sodium_mg", analysisStatus |-> "analysis_status"]
        renamed == [k \in {r \in DOMAIN renames : Has(meal, renames[r])}
                        |-> meal[renames[k]]]
        derived ==
            [id |-> NatToStr(meal.meal_id),
             userId |-> meal.user_id,
             meal_period |-> StrOr(meal, "meal_period", "other"),
             mealPeriod |-> StrOr(meal, "meal_period", "other"),
             ingredients |-> IF Has(meal, "ingredients") THEN meal.ingredients.items
                             ELSE <<>>,
             tasteRating |-> Or0(meal, "taste_rating"),
             satietyRating |-> Or0(meal, "satiety_rating"),
             energyRating |-> Or0(meal, "energy_rating"),
             heavinessRating |-> Or0(meal, "heaviness_rating"),
             isFavorite |-> BoolOr(meal, "is_favorite")]
    IN  Spread(Spread(meal, renamed), derived)

----------------------------------------------------------------------------
\* Statistics. Stored quantities are whole numbers; every reported total and
\* average is Math.round(x * 100) / 100 and is held in hundredths.

RECURSIVE SumNullAsOne(_, _)
SumNullAsOne(rows, f) ==
    IF rows = <<>> THEN 0
    ELSE (IF Has(Head(rows), f) THEN Head(rows)[f] ELSE 1) + SumNullAsOne(Tail(rows), f)

RECURSIVE SumField(_, _)
\* totals[field] += meal[field] || 0, over the rows in order
SumField(rows, f) ==
    IF rows = <<>> THEN 0 ELSE Or0(Head(rows), f) + SumField(Tail(rows), f)

\* Math.round(num / den * 100), in hundredths: floor(x + 1/2)
Round2(num, den) == (200 * num + den) \div (2 * den)

CharRank(c) ==
    LET CharOrder == <<"-", "0", "1", "2", "3", "4", "5", "6", "7", "8", "9">>
    IN  CHOOSE i \in 1..Len(CharOrder) : CharOrder[i] = c

RECURSIVE StrLess(_, _)
\* a.localeCompare(b) < 0 for ISO dates
StrLess(a, b) ==
    IF b = <<>> THEN FALSE
    ELSE IF a = <<>> THEN TRUE
    ELSE IF Head(a) # Head(b) THEN CharRank(Head(a)) < CharRank(Head(b))
    ELSE StrLess(Tail(a), Tail(b))

\* the select of getRangeStatistics and the fields pushed to a day's list
RangeSelect ==
    {"meal_id", "user_id", "meal_name", "calories", "protein_g", "carbs_g", "fats_g",
     "fiber_g", "sugar_g", "sodium_mg", "saturated_fats_g", "polyunsaturated_fats_g",
     "monounsaturated_fats_g", "omega_3_g", "omega_6_g", "soluble_fiber_g",
     "insoluble_fiber_g", "cholesterol_mg", "alcohol_g", "caffeine_mg", "liquids_ml",
     "serving_size_g", "glycemic_index", "insulin_index", "confidence", "created_at",
     "upload_time"}

RECURSIVE GroupKeepLast(_, _)
GroupKeepLast(rows, acc) ==
    IF rows = <<>> THEN acc
    ELSE LET meal == Head(rows)
             date == IsoDay(meal.created_at)
             at == {i \in 1..Len(acc) : acc[i].date = date}
         IN  IF at = {}
             THEN GroupKeepLast(Tail(rows),
                                Append(acc, [date |-> date,
                                             meals |-> <<Select(meal, RangeSelect)>>]))
             ELSE LET i == CHOOSE j \in at : TRUE
                  IN  GroupKeepLast(Tail(rows),
                          [acc EXCEPT ![i].meals = <<Select(meal, RangeSelect)>>])

RECURSIVE GroupByDay(_, _)
\* meals.reduce(...): the day entries in order of first appearance
GroupByDay(rows, acc) ==
    IF rows = <<>> THEN acc
    ELSE LET meal == Head(rows)
             date == IsoDay(meal.created_at)
             at == {i \in 1..Len(acc) : acc[i].date = date}
         IN  IF at = {}
             THEN GroupByDay(Tail(rows),
                             Append(acc, [date |-> date, meals |-> <<Select(meal, RangeSelect)>>]))
             ELSE LET i == CHOOSE j \in at : TRUE
                  IN  GroupByDay(Tail(rows),
                          [acc EXCEPT ![i].meals = Append(@, Select(meal, RangeSelect))])

RECURSIVE SortLatestFirst(_)
SortLatestFirst(entries) ==
    IF entries = <<>> THEN <<>>
    ELSE LET i == CHOOSE j \in 1..Len(entries) :
                      \A k \in 1..Len(entries) : ~StrLess(entries[j].date, entries[k].date)
             rest == [k \in 1..(Len(entries) - 1) |->
                          IF k < i THEN entries[k] ELSE entries[k + 1]]
         IN  <<entries[i]>> \o SortLatestFirst(rest)

RECURSIVE SortByDate(_)
\* dailyBreakdown.sort((a, b) => a.date.localeCompare(b.date))
SortByDate(entries) ==
    IF entries = <<>> THEN <<>>
    ELSE LET i == CHOOSE j \in 1..Len(entries) :
                      \A k \in 1..Len(entries) : ~StrLess(entries[k].date, entries[j].date)
             rest == [k \in 1..(Len(entries) - 1) |->
                          IF k < i THEN entries[k] ELSE entries[k + 1]]
         IN  <<entries[i]>> \o SortByDate(rest)

EveryRowADay(rows) == DOMAIN rows

\* uniqueDates: the set of the UTC days of the rows
DistinctDays(rows) == {IsoDay(rows[i].created_at) : i \in 1..Len(rows)}

\* the result getRangeStatistics computes from the rows it loaded; the fields
\* total_<f> and average_<f> are held as total[f] and average[f]
RangeStatistics(rows, startDate, endDate) ==
    IF Len(rows) = 0
    THEN [totalDays |-> 0, totalMeals |-> 0, dailyBreakdown |-> <<>>,
          total |-> [f \in NumericFieldSet |-> 0],
          average |-> [f \in NumericFieldSet |-> 0]]
    ELSE LET totalDays == Cardinality(DistinctDays(rows))
             totals == [f \in NumericFieldSet |-> SumField(rows, f)]
         IN  [totalDays |-> totalDays,
              totalMeals |-> Len(rows),
              total |-> [f \in NumericFieldSet |-> Round2(totals[f], 1)],
              average |-> [f \in NumericFieldSet |->
                              IF totalDays > 0 THEN Round2(totals[f], totalDays) ELSE 0],
              dailyBreakdown |-> SortByDate(GroupByDay(rows, <<>>)),
              dateRange |-> [startDate |-> startDate, endDate |-> endDate]]

\* the select of getDailyStats
DailySelect == {"calories", "protein_g", "carbs_g", "fats_g", "fiber_g", "sugar_g"}

\* the result getDailyStats computes from the rows it loaded
DailyStats(rows) ==
    [calories |-> SumField(rows, "calories"),
     protein |-> SumField(rows, "protein_g"),
     carbs |-> SumField(rows, "carbs_g"),
     fat |-> SumField(rows, "fats_g"),
     fiber |-> SumField(rows, "fiber_g"),
     sugar |-> SumField(rows, "sugar_g"),
     meal_count |-> Len(rows)]

----------------------------------------------------------------------------
\* The client's resolver of a nutrient field (camera.tsx)

\* the property names of a statistics row, character by character
KeyChars ==
    [meal_id |->
         <<"m", "e", "a", "l", "_", "i", "d">>,
     user_id |->
         <<"u", "s", "e", "r", "_", "i", "d">>,
     meal_name |->
         <<"m", "e", "a", "l", "_", "n", "a", "m", "e">>,
     calories |->
         <<"c", "a", "l", "o", "r", "i", "e", "s">>,
     protein_g |->
         <<"p", "r", "o", "t", "e", "i", "n", "_", "g">>,
     carbs_g |->
         <<"c", "a", "r", "b", "s", "_", "g">>,
     fats_g |->
         <<"f", "a", "t", "s", "_", "g">>,
     fiber_g |->
         <<"f", "i", "b", "e", "r", "_", "g">>,
     sugar_g |->
         <<"s", "u", "g", "a", "r", "_", "g">>,
     sodium_mg |->
         <<"s", "o", "d", "i", "u", "m", "_", "m", "g">>,
     saturated_fats_g |->
         <<"s", "a", "t", "u", "r", "a", "t", "e", "d", "_", "f", "a", "t", "s", "_", "g">>,
     polyunsaturated_fats_g |->
         <<"p", "o", "l", "y", "u", "n", "s", "a", "t", "u", "r", "a", "t", "e", "d", "_", "f", "a", "t", "s", "_", "g">>,
     monounsaturated_fats_g |->
         <<"m", "o", "n", "o", "u", "n", "s", "a", "t", "u", "r", "a", "t", "e", "d", "_", "f", "a", "t", "s", "_", "g">>,
     omega_3_g |->
         <<"o", "m", "e", "g", "a", "_", "3", "_", "g">>,
     omega_6_g |->
         <<"o", "m", "e", "g", "a", "_", "6", "_", "g">>,
     soluble_fiber_g |->
         <<"s", "o", "l", "u", "b", "l", "e", "_", "f", "i", "b", "e", "r", "_", "g">>,
     insoluble_fiber_g |->
         <<"i", "n", "s", "o", "l", "u", "b", "l", "e", "_", "f", "i", "b", "e", "r", "_", "g">>,
     cholesterol_mg |->
         <<"c", "h", "o", "l", "e", "s", "t", "e", "r", "o", "l", "_", "m", "g">>,
     alcohol_g |->
         <<"a", "l", "c", "o", "h", "o", "l", "_", "g">>,
     caffeine_mg |->
         <<"c", "a", "f", "f", "e", "i", "n", "e", "_", "m", "g">>,
     liquids_ml |->
         <<"l", "i", "q", "u", "i", "d", "s", "_", "m", "l">>,
     serving_size_g |->
         <<"s", "e", "r", "v", "i", "n", "g", "_", "s", "i", "z", "e", "_", "g">>,
     glycemic_index |->
         <<"g", "l", "y", "c", "e", "m", "i", "c", "_", "i", "n", "d", "e", "x">>,
     insulin_index |->
         <<"i", "n", "s", "u", "l", "i", "n", "_", "i", "n", "d", "e", "x">>,
     confidence |->
         <<"c", "o", "n", "f", "i", "d", "e", "n", "c", "e">>,
     created_at |->
         <<"c", "r", "e", "a", "t", "e", "d", "_", "a", "t">>,
     upload_time |->
         <<"u", "p", "l", "o", "a", "d", "_", "t", "i", "m", "e">>,
     protein |->
         <<"p", "r", "o", "t", "e", "i", "n">>,
     carbs |->
         <<"c", "a", "r", "b", "s">>,
     fat |->
         <<"f", "a", "t">>,
     fiber |->
         <<"f", "i", "b", "e", "r">>,
     sugar |->
         <<"s", "u", "g", "a", "r">>,
     sodium |->
         <<"s", "o", "d", "i", "u", "m">>]

\* str.replace(pat, ""): the first occurrence of pat removed
ReplaceFirst(str, pat) ==
    LET at == {i \in 1..(Len(str) - Len(pat) + 1) : SubSeq(str, i, i + Len(pat) - 1) = pat}
    IN  IF at = {} THEN str
        ELSE LET i == CHOOSE j \in at : \A k \in at : j <= k
             IN  SubSeq(str, 1, i - 1) \o SubSeq(str, i + Len(pat), Len(str))

\* A value of a client record is [kind |-> "number", q |-> n], a string
\* [kind |-> "string", parses |-> b, q |-> n] that parseFloat reads as n or not
\* at all, or [kind |-> "other"] (null, an object). Quantities n count 1/Scale.
Scale == 4

\* Math.round(n / Scale): floor(x + 1/2), as a whole number
MathRound(n) == (2 * n + Scale) \div (2 * Scale)

LastOf(found) == CHOOSE i \in found : \A j \in found : j <= i

\* `for (const variation of variations)`: the spellings are tried in order
FirstOf(found) == CHOOSE i \in found : \A j \in found : i <= j

\* getNutritionValue(data, field): the value under the first of the field's
\* spellings that holds a positive number or a string parseFloat can read,
\* rounded; 0 when data is undefined or no spelling holds one
getNutritionValue(data, field) ==
    LET name == KeyChars[field]
        variations == <<name, ReplaceFirst(name, <<"_", "g">>),
                        ReplaceFirst(name, <<"_", "m", "g">>),
                        ReplaceFirst(name, <<"g">>), ReplaceFirst(name, <<"m", "g">>)>>
        Key(i) == {k \in (DOMAIN data) \cap (DOMAIN KeyChars) : KeyChars[k] = variations[i]}
        found == {i \in DOMAIN variations :
                     \E k \in Key(i) :
                         \/ data[k].kind = "number" /\ data[k].q > 0
                         \/ data[k].kind = "string" /\ data[k].parses}
    IN  IF Has(data, "undefined") \/ found = {} THEN 0
        ELSE MathRound(data[CHOOSE k \in Key(FirstOf(found)) : TRUE].q)

\* the storage name and the short name calculateTotalNutrition asks for
Spellings ==
    [calories |-> <<"calories", "calories">>, protein |-> <<"protein_g", "protein">>,
     carbs |-> <<"carbs_g", "carbs">>, fat |-> <<"fats_g", "fat">>,
     fiber |-> <<"fiber_g", "fiber">>, sugar |-> <<"sugar_g", "sugar">>,
     sodium |-> <<"sodium_mg", "sodium">>]

\* calculateTotalNutrition() with the screen holding analysisData and
\* editedIngredients; the totals count 1/Scale. The meal's calories are a number
\* or missing, as AnalysisData declares them.
calculateTotalNutrition(analysisData, editedIngredients) ==
    LET defined == ~Has(analysisData, "undefined")
        currentIngredients ==
            IF Len(editedIngredients) > 0 THEN editedIngredients
            ELSE IF defined /\ Has(analysisData, "ingredients")
                 THEN analysisData.ingredients.items
                 ELSE <<>>
        \* getNutritionValue(x, "protein_g") || getNutritionValue(x, "protein")
        Either(x, n) ==
            IF getNutritionValue(x, Spellings[n][1]) # 0
            THEN getNutritionValue(x, Spellings[n][1])
            ELSE getNutritionValue(x, Spellings[n][2])
        total(n) ==
            IF ~defined THEN 0
            ELSE IF n = "calories"
                 THEN IF Has(analysisData, "calories") THEN analysisData.calories.q ELSE 0
                 ELSE Scale * Either(analysisData, n)
        RECURSIVE IngredientSum(_, _)
        IngredientSum(ingredients, n) ==
            IF ingredients = <<>> THEN 0
            ELSE Either(Head(ingredients), n) + IngredientSum(Tail(ingredients), n)
    IN  IF ~defined /\ Len(currentIngredients) = 0
        THEN [n \in DOMAIN Spellings |-> 0]
        ELSE IF Len(currentIngredients) > 0
             THEN [n \in DOMAIN Spellings |->
                      IF IngredientSum(currentIngredients, n) # 0
                      THEN Scale * IngredientSum(currentIngredients, n)
                      ELSE total(n)]
             ELSE [n \in DOMAIN Spellings |-> total(n)]

----------------------------------------------------------------------------
\* The store (prisma) as the service uses it

MealIds == DOMAIN meals

OwnedBy(user_id) == {id \in MealIds : meals[id].user_id = user_id}

\* orderBy: { created_at: direction }: a comes before b
Before(direction, a, b) == IF direction = "desc" THEN a > b ELSE a < b

\* every arrangement of the rows `ids` that respects the direction on created_at
Orderings(ids, direction) ==
    {s \in [1..Cardinality(ids) -> ids] :
        /\ \A i, j \in DOMAIN s : i # j => s[i] # s[j]
        /\ \A i, j \in DOMAIN s :
              i < j => ~Before(direction, meals[s[j]].created_at, meals[s[i]].created_at)}

\* skip / take
Page(s, offset, limit) ==
    SubSeq(s, offset + 1, IF offset + limit < Len(s) THEN offset + limit ELSE Len(s))

\* prisma.meal.findMany of getUserMeals: where user_id, created_at desc, skip, take.
\* Rows with equal created_at come in either order.
FindUserMeals(user_id, offset, limit) ==
    {[i \in DOMAIN Page(s, offset, limit) |->
          Select(meals[Page(s, offset, limit)[i]], UserMealsSelect)] :
        s \in Orderings(OwnedBy(user_id), "desc")}

FindRangeMealsExclusive(user_id, gte, lte) ==
    {[i \in DOMAIN s |-> Select(meals[s[i]], RangeSelect)] :
        s \in Orderings({id \in OwnedBy(user_id) :
                            /\ meals[id].created_at >= gte
                            /\ meals[id].created_at < lte}, "asc")}

FindRangeMealsAnyOwner(user_id, gte, lte) ==
    {[i \in DOMAIN s |-> Select(meals[s[i]], RangeSelect)] :
        s \in Orderings({id \in MealIds :
                            /\ meals[id].created_at >= gte
                            /\ meals[id].created_at <= lte}, "asc")}

\* prisma.meal.findMany of getRangeStatistics: created_at in [gte, lte], ascending
FindRangeMeals(user_id, gte, lte) ==
    {[i \in DOMAIN s |-> Select(meals[s[i]], RangeSelect)] :
        s \in Orderings({id \in OwnedBy(user_id) :
                            /\ meals[id].created_at >= gte
                            /\ meals[id].created_at <= lte}, "asc")}

RECURSIVE InIdOrder(_)
InIdOrder(ids) ==
    IF ids = {} THEN <<>>
    ELSE LET m == CHOOSE i \in ids : \A j \in ids : i <= j
         IN  <<m>> \o InIdOrder(ids \ {m})

\* prisma.meal.findMany of getDailyStats: created_at in [gte, lt); the result is
\* only summed, so one order stands for all
FindDailyMeals(user_id, gte, lt) ==
    LET s == InIdOrder({id \in OwnedBy(user_id) :
                            /\ meals[id].created_at >= gte
                            /\ meals[id].created_at < lt})
    IN  [i \in DOMAIN s |-> Select(meals[s[i]], DailySelect)]

\* parseInt(meal_id): the leading decimal digits, or NaN (here -1) without any
IsDigit(c) == \E i \in 1..10 : Digits[i] = c

RECURSIVE ParseDigits(_, _)
ParseDigits(str, acc) ==
    IF str = <<>> \/ ~IsDigit(Head(str)) THEN acc
    ELSE ParseDigits(Tail(str), acc * 10 + (CHOOSE i \in 1..10 : Digits[i] = Head(str)) - 1)

NaN == -1
ParseInt(str) == IF str = <<>> \/ ~IsDigit(Head(str)) THEN NaN ELSE ParseDigits(str, 0)

FindFirstAnyOwner(meal_id, user_id) == {id \in MealIds : id = meal_id}

\* prisma.meal.findFirst({ where: { meal_id, user_id } }): the ids of the rows found
FindFirst(meal_id, user_id) ==
    {id \in MealIds : id = meal_id /\ meals[id].user_id = user_id}

\* prisma.meal.create: the row gets the next meal_id
\* a create that also stamps the rows already there
CreateMealRestamping(data) ==
    LET id == Cardinality(MealIds) + 1
    IN  [k \in MealIds \cup {id} |->
            IF k = id THEN With(data, "meal_id", id)
            ELSE With(meals[k], "created_at", data.created_at)]

CreateMeal(data) ==
    LET id == Cardinality(MealIds) + 1
    IN  [k \in MealIds \cup {id} |-> IF k = id THEN With(data, "meal_id", id) ELSE meals[k]]

\* prisma.meal.update({ where: { meal_id }, data })
UpdateMeal(meal_id, data) == [meals EXCEPT ![meal_id] = Spread(@, data)]

----------------------------------------------------------------------------
\* Service calls. A call occupies a request slot; pc is the await it is at.
\* The h_ fields are history: what the call has done so far.

StoreError == "StoreError"

Idle ==
    [op |-> "none", pc |-> "idle", user_id |-> <<>>, args |-> EmptyObj,
     cacheKey |-> <<>>, local |-> EmptyObj, outcome |-> "none", result |-> EmptyObj,
     error |-> "",
     h_hit |-> FALSE, h_had |-> FALSE, h_age |-> 0, h_since |-> 0, h_served |-> 0,
     h_ver |-> 0,
     h_startRet |-> 0, h_queries |-> 0, h_writes |-> 0, h_analyzer |-> 0,
     h_removed |-> {}, h_cleared |-> {}, h_found |-> "none", h_wver |-> 0,
     h_storeFailed |-> FALSE, h_cause |-> "none", h_rejection |-> <<>>]

\* a call takes the first free slot
CanStart(p) ==
    /\ procs[p].pc = "idle"
    /\ \A q \in Procs : q < p => procs[q].pc # "idle"
    /\ started < budget

Begin(op, user_id, args, pc) ==
    [Idle EXCEPT !.op = op, !.pc = pc, !.user_id = user_id, !.args = args,
                 !.h_startRet = retSeq[user_id]]

Returns(rec, result) ==
    [rec EXCEPT !.pc = "done", !.outcome = "ok", !.result = result, !.local = EmptyObj]

Throws(rec, error) ==
    [rec EXCEPT !.pc = "done", !.outcome = "error", !.error = error, !.local = EmptyObj]

\* history: a store operation of the call has failed
StoreFailure(rec) == [rec EXCEPT !.h_storeFailed = TRUE]

\* the call in slot p moves on to rec; a call that is done frees its slot
Set(p, rec) ==
    IF rec.pc = "done"
    THEN procs' = [procs EXCEPT ![p] = Idle] /\ last' = rec
    ELSE procs' = [procs EXCEPT ![p] = rec] /\ last' = Idle

HitResultPartial(entry) ==
    LET data == entry.data IN
    IF DOMAIN data = {} THEN data
    ELSE [k \in (DOMAIN data) \ {CHOOSE x \in DOMAIN data : TRUE} |-> data[k]]

\* `return cached.data`
HitResult(entry) == entry.data

AfterHitTouched(cache, key) ==
    [cache EXCEPT ![key].timestamp = now, ![key].h_hits = @ + 1]

\* the map after a read found a valid entry: the entry is only read (h_hits,
\* history, counts the reads it has served)
AfterHit(cache, key) == [cache EXCEPT ![key].h_hits = @ + 1]

\* history of the cache check: whether the key had an entry, its age, the time
\* since it was set and the reads it had served
Checked(cache, rec) ==
    IF rec.cacheKey \in DOMAIN cache
    THEN [rec EXCEPT !.h_had = TRUE,
                     !.h_age = now - cache[rec.cacheKey].timestamp,
                     !.h_since = now - cache[rec.cacheKey].h_at,
                     !.h_served = cache[rec.cacheKey].h_hits]
    ELSE rec

\* the cache check every read starts with: a hit returns, a miss issues the query
CheckCache(p, cache, rec) ==
    IF IsHit(cache, rec.cacheKey, now)
    THEN Set(p, Returns([Checked(cache, rec) EXCEPT !.h_hit = TRUE,
                                                    !.h_ver = cache[rec.cacheKey].h_ver],
                        HitResult(cache[rec.cacheKey])))
    ELSE Set(p, Checked(cache, rec))

\* the cache after the check
Checks(cache, key) == IF IsHit(cache, key, now) THEN AfterHit(cache, key) ELSE cache

EntryUndated(data, ver) ==
    [data |-> data, timestamp |-> 0, h_ver |-> ver, h_at |-> now, h_hits |-> 0]

\* { data, timestamp: Date.now() }; history: h_ver is the store version the data
\* was loaded at, h_at the time the entry was set, h_hits the reads it has served
Entry(data, ver) ==
    [data |-> data, timestamp |-> now, h_ver |-> ver, h_at |-> now, h_hits |-> 0]

ReadFrame == UNCHANGED <<meals, users, now, immediates, wseq, retSeq, writes, budget>>

\* ---- getUserMeals
GetUserMealsStart(p, user_id, offset, limit) ==
    /\ CanStart(p)
    /\ started' = started + 1
    /\ CheckCache(p, mealsCache,
                  [Begin("getUserMeals", user_id, [offset |-> offset, limit |-> limit], "load")
                      EXCEPT !.cacheKey = UserMealsKey(user_id, offset, limit)])
    /\ mealsCache' = Checks(mealsCache, UserMealsKey(user_id, offset, limit))
    /\ UNCHANGED userStatsCache
    /\ ReadFrame

GetUserMealsLoad(p) ==
    LET rec == procs[p] IN
    /\ rec.op = "getUserMeals" /\ rec.pc = "load"
    /\ \/ \E rows \in FindUserMeals(rec.user_id, rec.args.offset, rec.args.limit) :
             Set(p, [rec EXCEPT !.pc = "cont", !.h_queries = @ + 1,
                                !.local = [rows |-> rows, ver |-> wseq[rec.user_id]]])
       \/ Set(p, Throws(StoreFailure([rec EXCEPT !.h_queries = @ + 1]), "Failed to fetch meals"))
    /\ UNCHANGED <<userStatsCache, mealsCache, started>>
    /\ ReadFrame

GetUserMealsCont(p) ==
    LET rec == procs[p]
        rows == rec.local.rows
    IN
    /\ rec.op = "getUserMeals" /\ rec.pc = "cont"
    /\ IF \E i \in DOMAIN rows : ProcessThrows(rows[i])
       THEN /\ Set(p, Throws(rec, "Failed to fetch meals"))
            /\ UNCHANGED mealsCache
       ELSE LET processedMeals == [i \in DOMAIN rows |-> ProcessedMeal(rows[i])]
            IN  /\ mealsCache' = CacheSet(mealsCache, rec.cacheKey,
                                          Entry(processedMeals, rec.local.ver))
                /\ Set(p, Returns([rec EXCEPT !.h_ver = rec.local.ver], processedMeals))
    /\ UNCHANGED <<userStatsCache, started>>
    /\ ReadFrame

\* ---- getRangeStatistics
GetRangeStatisticsStart(p, userId, startDate, endDate) ==
    /\ CanStart(p)
    /\ started' = started + 1
    /\ CheckCache(p, userStatsCache,
                  [Begin("getRangeStatistics", userId,
                         [startDate |-> startDate, endDate |-> endDate], "load")
                      EXCEPT !.cacheKey = RangeKey(userId, startDate, endDate)])
    /\ userStatsCache' = Checks(userStatsCache, RangeKey(userId, startDate, endDate))
    /\ UNCHANGED mealsCache
    /\ ReadFrame

\* a query whose failure drops the entries of the statistics cache
GetRangeStatisticsLoadEvicting(p) ==
    LET rec == procs[p] IN
    /\ rec.op = "getRangeStatistics" /\ rec.pc = "load"
    /\ \/ /\ \E rows \in FindRangeMeals(rec.user_id, DayStart(rec.args.startDate),
                                        DayEnd(rec.args.endDate)) :
                Set(p, [rec EXCEPT !.pc = "cont", !.h_queries = @ + 1,
                                   !.local = [rows |-> rows, ver |-> wseq[rec.user_id]]])
          /\ UNCHANGED userStatsCache
       \/ /\ Set(p, Throws(StoreFailure([rec EXCEPT !.h_queries = @ + 1]), StoreError))
          /\ userStatsCache' = EmptyCache
    /\ UNCHANGED <<mealsCache, started>>
    /\ ReadFrame

GetRangeStatisticsLoad(p) ==
    LET rec == procs[p] IN
    /\ rec.op = "getRangeStatistics" /\ rec.pc = "load"
    /\ \/ \E rows \in FindRangeMeals(rec.user_id, DayStart(rec.args.startDate),
                                     DayEnd(rec.args.endDate)) :
             Set(p, [rec EXCEPT !.pc = "cont", !.h_queries = @ + 1,
                                !.local = [rows |-> rows, ver |-> wseq[rec.user_id]]])
       \/ Set(p, Throws(StoreFailure([rec EXCEPT !.h_queries = @ + 1]), StoreError))
    /\ UNCHANGED <<userStatsCache, mealsCache, started>>
    /\ ReadFrame

GetRangeStatisticsCont(p) ==
    LET rec == procs[p]
        statistics == RangeStatistics(rec.local.rows, rec.args.startDate, rec.args.endDate)
    IN
    /\ rec.op = "getRangeStatistics" /\ rec.pc = "cont"
    /\ userStatsCache' = CacheSet(userStatsCache, rec.cacheKey,
                                  Entry(statistics, rec.local.ver))
    /\ Set(p, Returns([rec EXCEPT !.h_ver = rec.local.ver], statistics))
    /\ UNCHANGED <<mealsCache, started>>
    /\ ReadFrame

\* ---- getDailyStats
GetDailyStatsStart(p, user_id, date) ==
    /\ CanStart(p)
    /\ started' = started + 1
    /\ CheckCache(p, userStatsCache,
                  [Begin("getDailyStats", user_id, [date |-> date], "load")
                      EXCEPT !.cacheKey = DailyKey(user_id, date)])
    /\ userStatsCache' = Checks(userStatsCache, DailyKey(user_id, date))
    /\ UNCHANGED mealsCache
    /\ ReadFrame

GetDailyStatsLoad(p) ==
    LET rec == procs[p] IN
    /\ rec.op = "getDailyStats" /\ rec.pc = "load"
    /\ \/ Set(p, [rec EXCEPT !.pc = "cont", !.h_queries = @ + 1,
                              !.local = [rows |-> FindDailyMeals(rec.user_id,
                                                    DayStart(rec.args.date),
                                                    DayStart(rec.args.date) + DayMs),
                                         ver |-> wseq[rec.user_id]]])
       \/ Set(p, Throws(StoreFailure([rec EXCEPT !.h_queries = @ + 1]), "Failed to fetch daily stats"))
    /\ UNCHANGED <<userStatsCache, mealsCache, started>>
    /\ ReadFrame

GetDailyStatsCont(p) ==
    LET rec == procs[p]
        result == DailyStats(rec.local.rows)
    IN
    /\ rec.op = "getDailyStats" /\ rec.pc = "cont"
    /\ userStatsCache' = CacheSet(userStatsCache, rec.cacheKey, Entry(result, rec.local.ver))
    /\ Set(p, Returns([rec EXCEPT !.h_ver = rec.local.ver], result))
    /\ UNCHANGED <<mealsCache, started>>
    /\ ReadFrame

----------------------------------------------------------------------------
\* Mutations

\* asJsonObject(value): the value when it is an object, else {}
AsJsonObject(o, f) == IF Has(o, f) THEN o[f] ELSE EmptyObj

\* mapExistingMealToPrismaInput(meal, user_id, date): the columns of the original
\* row for a new row of user_id created at date
MapExistingMealToPrismaInput(meal, user_id, date) ==
    Spread([k \in (DOMAIN meal) \ {"meal_id"} |-> meal[k]],
           [user_id |-> user_id, created_at |-> date])

RethrownCleared(cache, user_id) == ClearByUser(cache, user_id)

\* catch (error) { console.error(...); throw error }: the cache is as it was
Rethrown(cache, user_id) == cache

\* the mutation in slot p throws
Fails(p, rec, error) ==
    LET stats == Rethrown(userStatsCache, rec.user_id)
        list == Rethrown(mealsCache, rec.user_id)
    IN  /\ userStatsCache' = stats
        /\ mealsCache' = list
        /\ Set(p, Throws([rec EXCEPT !.h_removed =
                              @ \cup ((DOMAIN userStatsCache) \ (DOMAIN stats))
                                \cup ((DOMAIN mealsCache) \ (DOMAIN list))],
                         error))

\* the mutation in slot p moves on to rec, the caches untouched
Goes(p, rec) == Set(p, rec) /\ UNCHANGED <<userStatsCache, mealsCache>>

\* how the row a findFirst looked for stands to the caller
Standing(meal_id, user_id) ==
    IF meal_id \notin MealIds THEN "absent"
    ELSE IF meals[meal_id].user_id = user_id THEN "owned" ELSE "foreign"

\* the findFirst every mutation by id starts with
FindStep(p, rec, meal_id) ==
    LET id == ParseInt(meal_id) IN
    \/ /\ id # NaN
       /\ Goes(p, [rec EXCEPT !.h_queries = @ + 1,
                             !.h_found = Standing(id, rec.user_id),
                             !.local = [found |-> FindFirst(id, rec.user_id) # {},
                                        meal |-> IF FindFirst(id, rec.user_id) # {}
                                                 THEN meals[id] ELSE EmptyObj]])
    \/ Fails(p, StoreFailure([rec EXCEPT !.h_queries = @ + 1]), StoreError)

MutationFrame == UNCHANGED <<users, now, immediates, budget>>

\* history: a store write of the caller to a row of owner
Logged(rec, owner) == writes' = writes \cup {[by |-> rec.user_id, owner |-> owner]}

\* history: a mutation returns; the writes it made are now visible to later reads
Covered(rec) ==
    retSeq' = [retSeq EXCEPT ![rec.user_id] = IF rec.h_wver > @ THEN rec.h_wver ELSE @]

\* a cache with the entries of user_id cleared, and the history of the clearing
Cleared(rec, which, before, after) ==
    [rec EXCEPT !.h_cleared = @ \cup {which},
                !.h_removed = @ \cup ((DOMAIN before) \ (DOMAIN after))]

\* ---- saveMeal
SaveMealStart(p, user_id, mealData, imageBase64) ==
    LET rec == Begin("saveMeal", user_id, EmptyObj, "fin")
        data == MapMealDataToPrismaFields(mealData, user_id, imageBase64,
                                          StrOr(mealData, "mealPeriod", ""), now)
    IN
    /\ CanStart(p)
    /\ Cardinality(MealIds) < MaxMeals
    /\ started' = started + 1
    /\ \/ /\ meals' = CreateMeal(data)
          /\ wseq' = [wseq EXCEPT ![user_id] = @ + 1]
          /\ Logged(rec, user_id)
          /\ Goes(p, [rec EXCEPT !.h_writes = @ + 1, !.h_wver = wseq[user_id] + 1,
                                !.local = [meal |-> CreateMeal(data)[Cardinality(MealIds) + 1]]])
       \/ /\ Fails(p, StoreFailure(rec), "Failed to save meal")
          /\ UNCHANGED <<meals, wseq, writes>>
    /\ UNCHANGED retSeq
    /\ MutationFrame

SaveMealFin(p) ==
    LET rec == procs[p] IN
    /\ rec.op = "saveMeal" /\ rec.pc = "fin"
    /\ Set(p, Returns(rec, transformMealForClient(rec.local.meal)))
    /\ Covered(rec)
    /\ UNCHANGED <<meals, userStatsCache, mealsCache, wseq, writes, started>>
    /\ MutationFrame

\* ---- toggleMealFavorite
ToggleMealFavoriteStart(p, user_id, meal_id) ==
    /\ CanStart(p)
    /\ started' = started + 1
    /\ FindStep(p, Begin("toggleMealFavorite", user_id, [meal_id |-> meal_id], "found"),
                meal_id)
    /\ UNCHANGED <<meals, wseq, retSeq, writes>>
    /\ MutationFrame

ToggleMealFavoriteWrite(p) ==
    LET rec == procs[p]
        meal == rec.local.meal
        additives == AsJsonObject(meal, "additives_json")
        current == BoolOr(additives, "isFavorite")
        updatedAdditives ==
            Spread(additives, [isFavorite |-> ~current, favoriteUpdatedAt |-> now])
    IN
    /\ rec.op = "toggleMealFavorite" /\ rec.pc = "found"
    /\ IF ~rec.local.found
       THEN /\ Fails(p, rec, "Meal not found")
            /\ UNCHANGED <<meals, wseq, writes>>
       ELSE \/ /\ meals' = UpdateMeal(meal.meal_id, [additives_json |-> updatedAdditives])
               /\ wseq' = [wseq EXCEPT ![meals[meal.meal_id].user_id] = @ + 1]
               /\ Logged(rec, meals[meal.meal_id].user_id)
               /\ Goes(p, [rec EXCEPT !.pc = "fin", !.h_writes = @ + 1,
                                     !.h_wver = wseq[rec.user_id] + 1,
                                     !.local = [current |-> current]])
            \/ /\ Fails(p, StoreFailure(rec), StoreError)
               /\ UNCHANGED <<meals, wseq, writes>>
    /\ UNCHANGED <<retSeq, started>>
    /\ MutationFrame

ToggleMealFavoriteFin(p) ==
    LET rec == procs[p]
        after == ClearByUser(userStatsCache, rec.user_id)
    IN
    /\ rec.op = "toggleMealFavorite" /\ rec.pc = "fin"
    /\ userStatsCache' = after
    /\ Set(p, Returns(Cleared(rec, "userStatsCache", userStatsCache, after),
                      [meal_id |-> rec.args.meal_id, isFavorite |-> ~rec.local.current]))
    /\ Covered(rec)
    /\ UNCHANGED <<meals, mealsCache, wseq, writes, started>>
    /\ MutationFrame

\* ---- saveMealFeedback
SaveMealFeedbackStart(p, user_id, meal_id, feedback) ==
    /\ CanStart(p)
    /\ started' = started + 1
    /\ FindStep(p, Begin("saveMealFeedback", user_id,
                         [meal_id |-> meal_id, feedback |-> feedback], "found"), meal_id)
    /\ UNCHANGED <<meals, wseq, retSeq, writes>>
    /\ MutationFrame

SaveMealFeedbackWrite(p) ==
    LET rec == procs[p]
        meal == rec.local.meal
        additives == AsJsonObject(meal, "additives_json")
        existingFeedback == AsJsonObject(additives, "feedback")
        updatedAdditives ==
            Spread(additives,
                   [feedback |-> Spread(Spread(existingFeedback, rec.args.feedback),
                                        [updatedAt |-> now])])
    IN
    /\ rec.op = "saveMealFeedback" /\ rec.pc = "found"
    /\ IF ~rec.local.found
       THEN /\ Fails(p, rec, "Meal not found")
            /\ UNCHANGED <<meals, wseq, writes>>
       ELSE \/ /\ meals' = UpdateMeal(meal.meal_id, [additives_json |-> updatedAdditives])
               /\ wseq' = [wseq EXCEPT ![meals[meal.meal_id].user_id] = @ + 1]
               /\ Logged(rec, meals[meal.meal_id].user_id)
               /\ Goes(p, [rec EXCEPT !.pc = "fin", !.h_writes = @ + 1,
                                     !.h_wver = wseq[rec.user_id] + 1,
                                     !.local = EmptyObj])
            \/ /\ Fails(p, StoreFailure(rec), StoreError)
               /\ UNCHANGED <<meals, wseq, writes>>
    /\ UNCHANGED <<retSeq, started>>
    /\ MutationFrame

SaveMealFeedbackFin(p) ==
    LET rec == procs[p]
        after == ClearByUser(userStatsCache, rec.user_id)
    IN
    /\ rec.op = "saveMealFeedback" /\ rec.pc = "fin"
    /\ userStatsCache' = after
    /\ Set(p, Returns(Cleared(rec, "userStatsCache", userStatsCache, after),
                      [meal_id |-> rec.args.meal_id, feedback |-> rec.args.feedback]))
    /\ Covered(rec)
    /\ UNCHANGED <<meals, mealsCache, wseq, writes, started>>
    /\ MutationFrame

\* ---- duplicateMeal; newDate is empty when not supplied
DuplicateMealStart(p, user_id, meal_id, newDate) ==
    /\ CanStart(p)
    /\ Cardinality(MealIds) < MaxMeals
    /\ started' = started + 1
    /\ FindStep(p, Begin("duplicateMeal", user_id,
                         [meal_id |-> meal_id, newDate |-> newDate], "found"), meal_id)
    /\ UNCHANGED <<meals, wseq, retSeq, writes>>
    /\ MutationFrame

DuplicateMealWrite(p) ==
    LET rec == procs[p]
        originalMeal == rec.local.meal
        duplicateDate == IF rec.args.newDate # <<>> THEN DayStart(rec.args.newDate) ELSE now
        data == MapExistingMealToPrismaInput(originalMeal, rec.user_id, duplicateDate)
    IN
    /\ rec.op = "duplicateMeal" /\ rec.pc = "found"
    /\ IF ~rec.local.found
       THEN /\ Fails(p, rec, "Meal not found")
            /\ UNCHANGED <<meals, wseq, writes>>
       ELSE \/ /\ Cardinality(MealIds) < MaxMeals
               /\ meals' = CreateMeal(data)
               /\ wseq' = [wseq EXCEPT ![rec.user_id] = @ + 1]
               /\ writes' = writes \cup {[by |-> rec.user_id, owner |-> rec.user_id],
                                          [by |-> rec.user_id, owner |-> originalMeal.user_id]}
               /\ Goes(p, [rec EXCEPT !.pc = "fin", !.h_writes = @ + 1,
                                     !.h_wver = wseq[rec.user_id] + 1,
                                     !.local = [meal |-> CreateMeal(data)[Cardinality(MealIds) + 1]]])
            \/ /\ Fails(p, StoreFailure(rec), StoreError)
               /\ UNCHANGED <<meals, wseq, writes>>
    /\ UNCHANGED <<retSeq, started>>
    /\ MutationFrame

DuplicateMealFin(p) ==
    LET rec == procs[p]
        after == ClearByUser(userStatsCache, rec.user_id)
    IN
    /\ rec.op = "duplicateMeal" /\ rec.pc = "fin"
    /\ userStatsCache' = after
    /\ Set(p, Returns(Cleared(rec, "userStatsCache", userStatsCache, after),
                      transformMealForClient(rec.local.meal)))
    /\ Covered(rec)
    /\ UNCHANGED <<meals, mealsCache, wseq, writes, started>>
    /\ MutationFrame

\* ---- updateMeal, with the analyzeMeal call it makes

\* what OpenAIService.analyzeMealImage may answer
AnalysisResults ==
    {[name |-> "Bowl", calories |-> 300, protein_g |-> 20, confidence |-> 90,
      ingredients |-> [kind |-> "array",
                       items |-> <<[name |-> "rice", calories |-> 300, protein_g |-> 20]>>]],
     [name |-> "Blur", calories |-> 0]}

StartsWith(str, pre) == Len(str) >= Len(pre) /\ SubSeq(str, 1, Len(pre)) = pre

\* str.indexOf(c), 1-based; 0 when c does not occur
IndexOf(str, c) ==
    IF \E i \in DOMAIN str : str[i] = c
    THEN CHOOSE i \in DOMAIN str : str[i] = c /\ \A j \in 1..(i - 1) : str[j] # c
    ELSE 0

\* updateMeal: the base64 text of the stored image, empty when there is none
ExistingImage(meal) ==
    IF ~Has(meal, "image_url") THEN <<>>
    ELSE IF StartsWith(meal.image_url, <<"d", "a", "t", "a", ":", "i", "m", "a", "g", "e", "/">>)
         THEN IF IndexOf(meal.image_url, ",") # 0
              THEN SubSeq(meal.image_url, IndexOf(meal.image_url, ",") + 1,
                          Len(meal.image_url))
              ELSE <<>>
    ELSE meal.image_url

Base64Marker == <<"b", "a", "s", "e", "6", "4", ",">>

\* imageBase64.replace(/^data:.*base64,/, ""): the text after the last "base64,"
CleanBase64(str) ==
    LET ends == {i \in 1..Len(str) :
                    /\ i >= Len(Base64Marker) + 5
                    /\ SubSeq(str, i - Len(Base64Marker) + 1, i) = Base64Marker}
    IN  IF StartsWith(str, <<"d", "a", "t", "a", ":">>) /\ ends # {}
        THEN SubSeq(str, (CHOOSE i \in ends : \A j \in ends : j <= i) + 1, Len(str))
        ELSE str

Base64Alphabet ==
    {"A", "B", "C", "D", "E", "F", "G", "H", "I", "J", "K", "L", "M",
     "N", "O", "P", "Q", "R", "S", "T", "U", "V", "W", "X", "Y", "Z",
     "a", "b", "c", "d", "e", "f", "g", "h", "i", "j", "k", "l", "m",
     "n", "o", "p", "q", "r", "s", "t", "u", "v", "w", "x", "y", "z",
     "0", "1", "2", "3", "4", "5", "6", "7", "8", "9", "+", "/"}

\* /^[A-Za-z0-9+/]*={0,2}$/.test(str)
IsBase64(str) ==
    \E pad \in 0..2 :
        /\ pad <= Len(str)
        /\ \A i \in 1..(Len(str) - pad) : str[i] \in Base64Alphabet
        /\ \A i \in (Len(str) - pad + 1)..Len(str) : str[i] = "="

\* analyzeMeal: the mapping of the ingredient object at (0-based) index
MapIngredient(ingredient, index) ==
    Spread(
        [name |-> IF Has(ingredient, "name") /\ ingredient.name # ""
                  THEN ingredient.name ELSE "Item " \o ToString(index + 1),
         calories |-> Or0(ingredient, "calories"),
         protein |-> Or2(ingredient, "protein_g", "protein"),
         carbs |-> Or2(ingredient, "carbs_g", "carbs"),
         fat |-> Or2(ingredient, "fats_g", "fat"),
         fiber |-> Or0(ingredient, "fiber_g"),
         sugar |-> Or0(ingredient, "sugar_g"),
         vitamins_json |-> ObjOr(ingredient, "vitamins_json"),
         micronutrients_json |-> ObjOr(ingredient, "micronutrients_json"),
         allergens_json |-> ObjOr(ingredient, "allergens_json")],
        Spread([f \in {"sodium_mg", "cholesterol_mg", "saturated_fats_g",
                       "polyunsaturated_fats_g", "monounsaturated_fats_g", "omega_3_g",
                       "omega_6_g", "soluble_fiber_g", "insoluble_fiber_g", "alcohol_g",
                       "caffeine_mg", "serving_size_g"} |-> Or0(ingredient, f)],
               [f \in {g \in {"glycemic_index", "insulin_index"} :
                          Or0(ingredient, g) # 0} |-> ingredient[f]]))

TimeoutMessage == "Analysis is taking too long. Please try again with a clearer image."
FailureMessage ==
    "Unable to analyze this image. Please try a clearer photo with better lighting, or try again later."
NoContentMessage ==
    "Analysis failed to identify any nutritional content. Please try a clearer image."

\* catch (error) around the race of the analyzer against the 60-second timer:
\* the message analyzeMeal throws for the error the race rejected with
AnalysisFailure(message) ==
    IF Includes(message, <<"t", "i", "m", "e", "o", "u", "t">>)
    THEN TimeoutMessage ELSE FailureMessage

\* analyzeMeal after the analyzer has answered: the `data` it returns, or the
\* message it throws
AnalyzeMealData(analysis, user_id, cleanBase64, mealPeriod, t) ==
    LET items == IF Has(analysis, "ingredients") THEN analysis.ingredients.items ELSE <<>>
        ingredients == [i \in DOMAIN items |-> MapIngredient(items[i], i - 1)]
        mappedMeal == MapMealDataToPrismaFields(analysis, user_id, cleanBase64, mealPeriod, t)
    IN  IF mappedMeal.calories = 0 /\ Len(ingredients) = 0
        THEN [throws |-> TRUE, message |-> NoContentMessage]
        ELSE [throws |-> FALSE,
              data |-> Spread(mappedMeal,
                          [ingredients |-> ArrayOf(ingredients),
                           healthScore |-> NatToStr(IF Or0(analysis, "confidence") # 0
                                                    THEN analysis.confidence ELSE 75),
                           recommendations |->
                               IF StrOr(analysis, "healthNotes", "") # ""
                               THEN analysis.healthNotes
                               ELSE StrOr(analysis, "recommendations",
                                          "Meal analysis completed successfully.")])]

UpdateMealStart(p, user_id, meal_id) ==
    /\ CanStart(p)
    /\ started' = started + 1
    /\ FindStep(p, Begin("updateMeal", user_id, [meal_id |-> meal_id], "found"), meal_id)
    /\ UNCHANGED <<meals, wseq, retSeq, writes>>
    /\ MutationFrame

\* from the meal found to analyzeMeal's prisma.user.findUnique
UpdateMealUser(p) ==
    LET rec == procs[p]
        existingMeal == rec.local.meal
        imageBase64 == ExistingImage(existingMeal)
        cleanBase64 == CleanBase64(imageBase64)
    IN
    /\ rec.op = "updateMeal" /\ rec.pc = "found"
    /\ IF ~rec.local.found THEN Fails(p, rec, "Meal not found or access denied")
       ELSE IF imageBase64 = <<>> THEN Fails(p, rec, "No image data found for this meal")
       ELSE IF ~IsBase64(cleanBase64) THEN Fails(p, rec, "Invalid base64 image format")
       ELSE \/ Goes(p, [rec EXCEPT !.pc = "user", !.h_queries = @ + 1,
                                  !.local = [existingMeal |-> existingMeal,
                                             imageBase64 |-> imageBase64,
                                             cleanBase64 |-> cleanBase64,
                                             user |-> IF rec.user_id \in DOMAIN users
                                                      THEN users[rec.user_id]
                                                      ELSE EmptyObj]])
            \/ Fails(p, StoreFailure([rec EXCEPT !.h_queries = @ + 1]), StoreError)
    /\ UNCHANGED <<meals, wseq, retSeq, writes, started>>
    /\ MutationFrame

\* an analyzer awaited without a timer
NoTimer(p) == FALSE

\* the timer of the race fires after 60 seconds, whatever the analyzer does:
\* reject(new Error("Analysis timeout after 60 seconds"))
RaceTimer(p) ==
    LET rec == procs[p]
        timer ==
        <<"A", "n", "a", "l", "y", "s", "i", "s", " ", "t", "i", "m", "e", "o",
          "u", "t", " ", "a", "f", "t", "e", "r", " ", "6", "0", " ", "s", "e",
          "c", "o", "n", "d", "s">>
    IN  /\ rec.op = "updateMeal" /\ rec.pc = "user"
        /\ rec.local.user # EmptyObj
        /\ Fails(p, [rec EXCEPT !.h_analyzer = @ + 1, !.h_cause = "timer",
                                !.h_rejection = timer],
                 AnalysisFailure(timer))
        /\ UNCHANGED <<meals, users, now, wseq, retSeq, writes, started, budget,
                       immediates>>

\* the analyzer answers or fails before the timer fires; on an answer analyzeMeal queues
\* the request-count update and returns, and updateMeal prepares the row. History:
\* h_counted of the user row counts the analyzer's answers whose update the store
\* has not rejected
UpdateMealAnalyze(p) ==
    LET rec == procs[p]
        loc == rec.local
        called == [rec EXCEPT !.h_analyzer = @ + 1]
        mealPeriod == StrOr(loc.existingMeal, "meal_period", "other")
        \* errors of the analyzer: "Rate limit exceeded", "Request timed out",
        \* "Connection timeout"
        rejections ==
            {<<"R", "a", "t", "e", " ", "l", "i", "m", "i", "t", " ", "e", "x", "c",
               "e", "e", "d", "e", "d">>,
             <<"R", "e", "q", "u", "e", "s", "t", " ", "t", "i", "m", "e", "d", " ",
               "o", "u", "t">>,
             <<"C", "o", "n", "n", "e", "c", "t", "i", "o", "n", " ", "t", "i", "m",
               "e", "o", "u", "t">>}
    IN
    /\ rec.op = "updateMeal" /\ rec.pc = "user"
    /\ IF loc.user = EmptyObj
       THEN /\ Fails(p, rec, "User not found")
            /\ UNCHANGED <<immediates, users>>
       ELSE \/ \E analysis \in AnalysisResults :
                 LET res == AnalyzeMealData(analysis, rec.user_id, loc.cleanBase64,
                                            mealPeriod, now)
                 IN  /\ immediates' = Append(immediates,
                                             [user_id |-> rec.user_id,
                                              ai_requests_count |->
                                                  loc.user.ai_requests_count + 1])
                     /\ users' = [users EXCEPT ![rec.user_id].h_counted = @ + 1]
                     /\ IF res.throws
                        THEN Fails(p, called, res.message)
                        ELSE Goes(p, [called EXCEPT
                                 !.pc = "write",
                                 !.local = [meal_id |-> loc.existingMeal.meal_id,
                                            data |-> With(MapMealDataToPrismaFields(
                                                              res.data, rec.user_id,
                                                              loc.imageBase64, mealPeriod, now),
                                                          "updated_at", now)]])
            \/ /\ \E message \in rejections :
                     Fails(p, [called EXCEPT !.h_cause = "analyzer",
                                             !.h_rejection = message],
                           AnalysisFailure(message))
               /\ UNCHANGED <<immediates, users>>
    /\ UNCHANGED <<meals, now, wseq, retSeq, writes,
                   started, budget>>

UpdateMealWrite(p) ==
    LET rec == procs[p]
        id == rec.local.meal_id
    IN
    /\ rec.op = "updateMeal" /\ rec.pc = "write"
    /\ \/ /\ meals' = UpdateMeal(id, rec.local.data)
          /\ wseq' = [wseq EXCEPT ![meals[id].user_id] = @ + 1]
          /\ Logged(rec, meals[id].user_id)
          /\ Goes(p, [rec EXCEPT !.pc = "fin", !.h_writes = @ + 1,
                                !.h_wver = wseq[rec.user_id] + 1,
                                !.local = [updatedMeal |-> UpdateMeal(id, rec.local.data)[id]]])
       \/ /\ Fails(p, StoreFailure(rec), StoreError)
          /\ UNCHANGED <<meals, wseq, writes>>
    /\ UNCHANGED <<retSeq, started>>
    /\ MutationFrame

UpdateMealFin(p) ==
    LET rec == procs[p]
        after == ClearByUser(mealsCache, rec.user_id)
    IN
    /\ rec.op = "updateMeal" /\ rec.pc = "fin"
    /\ mealsCache' = after
    /\ Set(p, Returns(Cleared(rec, "mealsCache", mealsCache, after), rec.local.updatedMeal))
    /\ Covered(rec)
    /\ UNCHANGED <<meals, userStatsCache, wseq, writes, started>>
    /\ MutationFrame

\* the callback analyzeMeal queued with setImmediate: the update lands, or
\* fails and is only logged
RunImmediate(i) ==
    LET task == immediates[i] IN
    /\ i \in DOMAIN immediates
    /\ immediates' = [k \in 1..(Len(immediates) - 1) |->
                          IF k < i THEN immediates[k] ELSE immediates[k + 1]]
    /\ \/ users' = [users EXCEPT ![task.user_id].ai_requests_count =
                                       task.ai_requests_count]
       \/ users' = [users EXCEPT ![task.user_id].h_counted = @ - 1]
    /\ last' = Idle
    /\ UNCHANGED <<meals, userStatsCache, mealsCache, now, procs, wseq, retSeq, writes,
                   started, budget>>

\* ---- clearAllCaches
\* a reset that clears the statistics cache only
ClearStatsCacheOnly ==
    /\ started < budget
    /\ started' = started + 1
    /\ userStatsCache' = EmptyCache
    /\ last' = [Idle EXCEPT !.op = "clearAllCaches", !.pc = "done", !.outcome = "ok",
                             !.h_removed = DOMAIN userStatsCache]
    /\ UNCHANGED <<meals, users, now, procs, immediates, wseq, retSeq, writes, budget,
                   mealsCache>>

ClearAllCaches ==
    /\ started < budget
    /\ started' = started + 1
    /\ userStatsCache' = EmptyCache
    /\ mealsCache' = EmptyCache
    /\ last' = [Idle EXCEPT !.op = "clearAllCaches", !.pc = "done", !.outcome = "ok",
                             !.h_removed = (DOMAIN userStatsCache) \cup (DOMAIN mealsCache)]
    /\ UNCHANGED <<meals, users, now, procs, immediates, wseq, retSeq, writes, budget>>

\* ---- the clock
Tick ==
    /\ now < NowBase + MaxTicks * TickMs
    /\ now' = now + TickMs
    /\ last' = Idle
    /\ UNCHANGED <<meals, users, userStatsCache, mealsCache, procs, immediates, wseq,
                   retSeq, writes, started, budget>>

----------------------------------------------------------------------------
\* Inputs of the calls

Pagings == {<<0, 100>>}
Ranges == {<<D1, D2>>, <<D2, D2>>}
DailyDates == {D2}
MealIdArgs == {<<"1">>, <<"2">>, <<"3">>}
Feedbacks == {[tasteRating |-> 4]}
NewDates == {D1}
MealDatas ==
    {[name |-> "Salad", calories |-> 120, protein |-> 8,
      ingredients |-> [kind |-> "array",
                       items |-> <<[name |-> "leaf", calories |-> 120, protein |-> 8]>>]]}

\* The rows the store holds at the start: one meal of each user, saved earlier
\* through saveMeal, the first with its image and on the first day.
InitMeals ==
    <<With(MapMealDataToPrismaFields(
               [name |-> "Oats", calories |-> 500, protein |-> 30,
                ingredients |-> [kind |-> "array",
                                 items |-> <<[name |-> "oats", calories |-> 500,
                                              protein |-> 30]>>]],
               U1, <<"Q", "Q">>, "", DayMs \div 2), "meal_id", 1),
      With(MapMealDataToPrismaFields(
               [name |-> "Soup", calories |-> 200, protein_g |-> 10],
               U11, <<>>, "lunch", DayMs + 1000), "meal_id", 2)>>

InitWith(n) ==
    /\ meals = InitMeals
    /\ users = [u \in UserIds |-> [user_id |-> u, ai_requests_count |-> 0,
                                    h_counted |-> 0]]
    /\ userStatsCache = EmptyCache
    /\ mealsCache = EmptyCache
    /\ now = NowBase
    /\ procs = [p \in Procs |-> Idle]
    /\ immediates = <<>>
    /\ wseq = [u \in UserIds |-> 0]
    /\ retSeq = [u \in UserIds |-> 0]
    /\ writes = {}
    /\ started = 0
    /\ last = Idle
    /\ budget = n

Init == InitWith(MaxCalls)

\* the awaits of the calls in flight
ReadSteps(p) ==
    \/ GetUserMealsLoad(p) \/ GetUserMealsCont(p)
    \/ GetRangeStatisticsLoad(p) \/ GetRangeStatisticsCont(p)
    \/ GetDailyStatsLoad(p) \/ GetDailyStatsCont(p)

MutationSteps(p) ==
    \/ UpdateMealUser(p) \/ UpdateMealAnalyze(p) \/ RaceTimer(p) \/ UpdateMealWrite(p)
    \/ UpdateMealFin(p)
    \/ SaveMealFeedbackWrite(p) \/ SaveMealFeedbackFin(p)
    \/ ToggleMealFavoriteWrite(p) \/ ToggleMealFavoriteFin(p)
    \/ DuplicateMealWrite(p) \/ DuplicateMealFin(p)

ReadStarts(p, u) ==
    \/ \E pg \in Pagings : GetUserMealsStart(p, u, pg[1], pg[2])
    \/ \E r \in Ranges : GetRangeStatisticsStart(p, u, r[1], r[2])
    \/ \E d \in DailyDates : GetDailyStatsStart(p, u, d)

SaveStarts(p, u) == \E md \in MealDatas : SaveMealStart(p, u, md, <<>>)

MutationStarts(p, u, ids) ==
    \E id \in ids :
        \/ UpdateMealStart(p, u, id)
        \/ \E fb \in Feedbacks : SaveMealFeedbackStart(p, u, id, fb)
        \/ ToggleMealFavoriteStart(p, u, id)
        \/ \E nd \in NewDates : DuplicateMealStart(p, u, id, nd)

\* The service under every call, with the clock running
Next ==
    \/ Tick
    \/ ClearAllCaches
    \/ \E i \in DOMAIN immediates : RunImmediate(i)
    \/ \E p \in Procs, u \in UserIds :
          ReadStarts(p, u) \/ SaveStarts(p, u) \/ MutationStarts(p, u, MealIdArgs)
    \/ \E p \in Procs : ReadSteps(p) \/ SaveMealFin(p) \/ MutationSteps(p)

Spec == Init /\ [][Next]_vars

\* One user's reads, one call after another, against the clock, with saveMeal
\* changing the store between them
NextCache ==
    \/ Tick
    \/ ReadStarts(1, U1) \/ SaveStarts(1, U1)
    \/ ReadSteps(1) \/ SaveMealFin(1)

SpecCache == InitWith(MaxOps) /\ [][NextCache]_vars

\* Reads of both users against mutations of their own meal, in one TTL window
NextInvalidate ==
    \/ \E i \in DOMAIN immediates : RunImmediate(i)
    \/ \E p \in Procs, u \in UserIds :
          ReadStarts(p, u) \/ SaveStarts(p, u) \/ MutationStarts(p, u, IF u = U1 THEN {<<"1">>} ELSE {<<"2">>})
    \/ \E p \in Procs : ReadSteps(p) \/ SaveMealFin(p) \/ MutationSteps(p)

SpecInvalidate == InitWith(MaxOps) /\ [][NextInvalidate]_vars

\* Reads of both users, some of them in flight, and resets of the caches
NextReset ==
    \/ ClearAllCaches
    \/ \E p \in Procs, u \in UserIds : ReadStarts(p, u)
    \/ \E p \in Procs : ReadSteps(p)

SpecReset == InitWith(MaxOps) /\ [][NextReset]_vars

\* The first user's mutations on its own meal, on the other user's meal and
\* on a meal that does not exist, in one TTL window, after reads of both users
\* that fill the two caches
NextMutations ==
    \/ \E i \in DOMAIN immediates : RunImmediate(i)
    \/ \E p \in Procs :
          \/ \E u \in UserIds : ReadStarts(p, u)
          \/ SaveStarts(p, U1)
          \/ MutationStarts(p, U1, MealIdArgs)
    \/ \E p \in Procs : ReadSteps(p) \/ SaveMealFin(p) \/ MutationSteps(p)

SpecMutations == InitWith(MaxCalls) /\ [][NextMutations]_vars

\* The first user toggles the favorite flag of its meal, of the other user's
\* meal and of a meal that does not exist, up to two calls at once
NextToggle ==
    \/ \E p \in Procs, id \in MealIdArgs : ToggleMealFavoriteStart(p, U1, id)
    \/ \E p \in Procs : ToggleMealFavoriteWrite(p) \/ ToggleMealFavoriteFin(p)

SpecToggle == InitWith(MaxOps) /\ [][NextToggle]_vars

\* The steps of the call in slot p that do not wait for the analyzer: the
\* continuation after a store call, which returns or fails, and the timer of
\* analyzeMeal. An answer of the analyzer, or an error of it, is not among them.
TimedStep(p) ==
    \/ ReadSteps(p) \/ SaveMealFin(p)
    \/ procs[p].pc # "user" /\ MutationSteps(p)
    \/ procs[p].pc = "user" /\ procs[p].local.user = EmptyObj /\ UpdateMealAnalyze(p)
    \/ RaceTimer(p)

\* The mutation workload when the event loop runs every continuation that is due
SpecLive ==
    /\ InitWith(MaxCalls)
    /\ [][NextMutations]_vars
    /\ \A p \in Procs : WF_vars(TimedStep(p))

----------------------------------------------------------------------------
\* Reads over stores of every shape

\* the most rows a store holds at the start, and the calls made on it
MaxRows == 4
MaxReads == 2

\* Rows saved earlier through saveMeal: mealData, owner and instant. Any number
\* is stored as it is given, a negative one included (`mealData.calories || 0`).
\* Three rows of user "1" are on the first day, the last of them in its last
\* millisecond, one is in the first millisecond of the second day, one is of
\* user "11", one more is on the second day.
RowDatas ==
    <<<<[name |-> "Oats", calories |-> 500, protein |-> 30], U1, DayMs \div 2>>,
      <<[name |-> "Tea"], U1, DayMs \div 2>>,
      <<[name |-> "Fix", calories |-> -100, protein_g |-> 5], U1, DayMs - 1>>,
      <<[name |-> "Soup", calories |-> 201, protein_g |-> 10], U1, DayMs>>,
      <<[name |-> "Rice", calories |-> 300], U11, DayMs \div 2 + 1>>,
      <<[name |-> "Old", protein_g |-> 7], U1, DayMs + 1000>>>>

\* The rows a store may hold. The last one was written by another writer: its
\* ingredients column is a string that is not JSON and its calories are null.
RowTemplates ==
    [i \in DOMAIN RowDatas |->
        LET row == MapMealDataToPrismaFields(RowDatas[i][1], RowDatas[i][2], <<>>, "",
                                             RowDatas[i][3])
        IN  IF i < Len(RowDatas) THEN row
            ELSE [k \in (DOMAIN row) \ {"calories"} |->
                     IF k = "ingredients"
                     THEN [kind |-> "string", parses |-> FALSE, items |-> <<>>]
                     ELSE row[k]]]

\* every store of at most MaxRows of these rows, numbered in the order they
\* were created
Stores ==
    {[n \in DOMAIN InIdOrder(chosen) |-> With(RowTemplates[InIdOrder(chosen)[n]], "meal_id", n)] :
        chosen \in {c \in SUBSET DOMAIN RowTemplates : Cardinality(c) <= MaxRows}}

RowRanges == {<<D1, D1>>, <<D1, D2>>, <<D2, D2>>}

InitRows ==
    /\ meals \in Stores
    /\ users = [u \in UserIds |-> [user_id |-> u, ai_requests_count |-> 0]]
    /\ userStatsCache = EmptyCache
    /\ mealsCache = EmptyCache
    /\ now = NowBase
    /\ procs = [p \in Procs |-> Idle]
    /\ immediates = <<>>
    /\ wseq = [u \in UserIds |-> 0]
    /\ retSeq = [u \in UserIds |-> 0]
    /\ writes = {}
    /\ started = 0
    /\ last = Idle
    /\ budget = MaxReads

\* User "1" reads its meals and its range statistics from such a store, up to
\* MaxReads times, two reads at once when it has two requests in flight
NextRows ==
    \/ \E p \in Procs, r \in RowRanges : GetRangeStatisticsStart(p, U1, r[1], r[2])
    \/ \E p \in Procs, pg \in Pagings : GetUserMealsStart(p, U1, pg[1], pg[2])
    \/ \E p \in Procs : GetRangeStatisticsLoad(p) \/ GetRangeStatisticsCont(p)
    \/ \E p \in Procs : GetUserMealsLoad(p) \/ GetUserMealsCont(p)

SpecRows == InitRows /\ [][NextRows]_vars

----------------------------------------------------------------------------
\* The capture screen's nutrition helpers, and reads over rows with null columns

\* the largest quantity a field of a client record holds, in 1/Scale
MaxQuantity == 6

\* a nutrient under its storage name and its short name
AliasPairs == {<<"protein_g", "protein">>, <<"sodium_mg", "sodium">>, <<"fats_g", "fat">>}

\* The records given to getNutritionValue: undefined ([undefined |-> TRUE]), or
\* any values under none, one or both names of a nutrient. A field holds a
\* number, a string that reads as a number, a string that does not, or null.
NutrientRecords ==
    LET FieldValues ==
            {[kind |-> "number", q |-> n] : n \in -MaxQuantity..MaxQuantity}
                \cup {[kind |-> "string", parses |-> TRUE, q |-> n] :
                         n \in -MaxQuantity..MaxQuantity}
                \cup {[kind |-> "string", parses |-> FALSE, q |-> 0], [kind |-> "other"]}
    IN  {[undefined |-> TRUE]} \cup
            UNION {[ks -> FieldValues] :
                      ks \in UNION {SUBSET {pr[1], pr[2]} : pr \in AliasPairs}}

\* a helper of the screen is applied to the arguments drawn for it: it returns
\* at once and changes nothing else
ClientCall(op, result) ==
    /\ last.op = "none"
    /\ last' = [last EXCEPT !.op = op, !.pc = "done", !.outcome = "ok", !.result = result]
    /\ UNCHANGED <<meals, users, userStatsCache, mealsCache, now, procs, immediates,
                   wseq, retSeq, writes, started, budget>>

GetNutritionValue ==
    /\ Has(last.args, "field")
    /\ ClientCall("getNutritionValue", getNutritionValue(last.args.data, last.args.field))

CalculateTotalNutrition ==
    /\ Has(last.args, "editedIngredients")
    /\ ClientCall("calculateTotalNutrition",
                  calculateTotalNutrition(last.args.analysisData,
                                          last.args.editedIngredients))

\* editedIngredients.filter((_, i) => i !== index), index counted from 0
handleRemoveIngredient(editedIngredients, index) ==
    [k \in 1..(Len(editedIngredients) - 1) |->
        IF k <= index THEN editedIngredients[k] ELSE editedIngredients[k + 1]]

\* an ingredient of the list on the screen is removed and the totals are
\* computed again; local keeps the totals shown before
HandleRemoveIngredient ==
    /\ last.op = "calculateTotalNutrition"
    /\ \E index \in 0..(Len(last.args.editedIngredients) - 1) :
           LET updatedIngredients ==
                   handleRemoveIngredient(last.args.editedIngredients, index)
           IN  last' = [last EXCEPT
                   !.op = "handleRemoveIngredient",
                   !.args = [@ EXCEPT !.editedIngredients = updatedIngredients],
                   !.local = [totals |-> last.result],
                   !.result = calculateTotalNutrition(last.args.analysisData,
                                                      updatedIngredients)]
    /\ UNCHANGED <<meals, users, userStatsCache, mealsCache, now, procs, immediates,
                   wseq, retSeq, writes, started, budget>>

\* the longest ingredient list of the screen
MaxIngredients == 2

\* ingredients as the analyzer and the edit form produce them
Ingredients ==
    {[name |-> "rice", protein_g |-> [kind |-> "number", q |-> 4 * Scale]],
     [name |-> "egg", protein |-> [kind |-> "number", q |-> 6 * Scale]],
     [name |-> "oil", fat |-> [kind |-> "number", q |-> 10],
      calories |-> [kind |-> "number", q |-> 3]],
     [name |-> "typed", protein_g |-> [kind |-> "string", parses |-> TRUE, q |-> -6]],
     [name |-> "water"]}

IngredientLists == UNION {[1..n -> Ingredients] : n \in 0..MaxIngredients}

\* what the screen holds as analysisData: nothing, or a meal with or without
\* calories, protein and ingredients
AnalysisDatas ==
    {[undefined |-> TRUE]} \cup
        {Spread(Spread(calories, protein), ingredients) :
            calories \in {EmptyObj} \cup
                {[calories |-> [kind |-> "number", q |-> n]] : n \in {0, 5, -4}},
            protein \in {EmptyObj} \cup
                {[protein_g |-> [kind |-> "number", q |-> n]] : n \in {0, 20}},
            ingredients \in {EmptyObj} \cup
                {[ingredients |-> ArrayOf(l)] :
                    l \in {<<>>, <<[name |-> "bean",
                                    protein |-> [kind |-> "number", q |-> 9]]>>}}}

\* Either the arguments of one call of a helper are drawn, or the service is
\* called: its store holds a row with a negative value, a plain row and a row
\* whose calories are null.
InitClient ==
    /\ meals = [n \in 1..3 |-> With(RowTemplates[<<3, 4, 6>>[n]], "meal_id", n)]
    /\ users = [u \in UserIds |-> [user_id |-> u, ai_requests_count |-> 0]]
    /\ userStatsCache = EmptyCache
    /\ mealsCache = EmptyCache
    /\ now = NowBase
    /\ procs = [p \in Procs |-> Idle]
    /\ immediates = <<>>
    /\ wseq = [u \in UserIds |-> 0]
    /\ retSeq = [u \in UserIds |-> 0]
    /\ writes = {}
    /\ started = 0
    /\ \/ last = Idle /\ budget = MaxReads
       \/ /\ budget = 0
          /\ \E data \in NutrientRecords,
                 field \in {"protein_g", "protein", "sodium_mg", "sodium", "fats_g",
                            "calories"} :
                 last = [Idle EXCEPT !.args = [data |-> data, field |-> field]]
       \/ /\ budget = 0
          /\ \E analysisData \in AnalysisDatas, editedIngredients \in IngredientLists :
                 last = [Idle EXCEPT !.args = [analysisData |-> analysisData,
                                               editedIngredients |-> editedIngredients]]

NextClient ==
    \/ GetNutritionValue
    \/ CalculateTotalNutrition
    \/ \E r \in RowRanges : GetRangeStatisticsStart(1, U1, r[1], r[2])
    \/ \E d \in DailyDates : GetDailyStatsStart(1, U1, d)
    \/ GetRangeStatisticsLoad(1) \/ GetRangeStatisticsCont(1)
    \/ GetDailyStatsLoad(1) \/ GetDailyStatsCont(1)

SpecClient == InitClient /\ [][NextClient]_vars

\* The screen shows the totals of a meal and ingredients are removed from its list
SpecEdit == InitClient /\ [][CalculateTotalNutrition \/ HandleRemoveIngredient]_vars

----------------------------------------------------------------------------
\* Properties

ReadOps == {"getUserMeals", "getRangeStatistics", "getDailyStats"}
ByIdOps == {"updateMeal", "saveMealFeedback", "toggleMealFavorite", "duplicateMeal"}
MutationOps == ByIdOps \cup {"saveMeal"}
NotFoundMessages == {"Meal not found", "Meal not found or access denied"}

\* the keys under which the reads of user_id cache their results
KeysOf(user_id) ==
    {UserMealsKey(user_id, pg[1], pg[2]) : pg \in Pagings}
        \cup {RangeKey(user_id, r[1], r[2]) : r \in Ranges}
        \cup {DailyKey(user_id, d) : d \in DailyDates}

CachedKeys == (DOMAIN mealsCache) \cup (DOMAIN userStatsCache)

\* the cache a read goes through
CacheOf(op) == IF op = "getUserMeals" THEN mealsCache ELSE userStatsCache

\* the calls in flight and the call that has just ended
Calls == {procs[p] : p \in Procs} \cup {last}

\* C1: when a mutation (saveMeal, updateMeal, saveMealFeedback,
\* toggleMealFavorite, duplicateMeal) returns successfully for an owner, neither
\* the meals-list cache nor the statistics cache holds an entry for that owner.
C1_NoOwnerEntryAfterMutation ==
    (last.op \in MutationOps /\ last.outcome = "ok") =>
        KeysOf(last.user_id) \cap CachedKeys = {}

\* C2: a read of an owner that starts after one of the owner's mutations has
\* returned never returns data loaded from the store before that mutation's
\* write (h_startRet: the writes covered by the mutations that had returned when
\* the read started; h_ver: the writes the returned data had seen).
C2_ReadSeesReturnedMutations ==
    (last.op \in ReadOps /\ last.outcome = "ok") => last.h_ver >= last.h_startRet

\* C3: a read returns a cached payload only if the entry's age is strictly less
\* than the TTL; with an entry whose age is the TTL or more the read is a miss
\* and the store is queried. For getUserMeals, getRangeStatistics, getDailyStats.
C3_HitOnlyWithinTTL ==
    \A c \in Calls :
        c.op \in ReadOps =>
            /\ c.h_hit => (c.h_had /\ c.h_age < CACHE_DURATION)
            /\ (c.h_had /\ c.h_age >= CACHE_DURATION) =>
                   /\ ~c.h_hit
                   /\ c.pc = "load" \/ c.h_queries >= 1

C3_ExpiredEntryQueried ==
    /\ last.op \in ReadOps /\ last.outcome = "ok"
    /\ last.h_had /\ last.h_age >= CACHE_DURATION
    /\ ~last.h_hit /\ last.h_queries = 1

\* C4: invalidating one owner's entries leaves every entry of every other owner
\* in place: the keys a mutation removes are keys of its own caller.
C4_OtherOwnersKept ==
    last.op \in MutationOps => last.h_removed \subseteq KeysOf(last.user_id)

\* C5: invalidating an owner's entries removes, from the cache it is applied
\* to, every entry whose key contains the owner id, so no entry created by a
\* read of that owner survives it.
C5_InvalidationRemovesOwnerKeys ==
    last.op \in MutationOps =>
        /\ "userStatsCache" \in last.h_cleared =>
               /\ \A k \in DOMAIN userStatsCache : ~Includes(k, last.user_id)
               /\ KeysOf(last.user_id) \cap DOMAIN userStatsCache = {}
        /\ "mealsCache" \in last.h_cleared =>
               /\ \A k \in DOMAIN mealsCache : ~Includes(k, last.user_id)
               /\ KeysOf(last.user_id) \cap DOMAIN mealsCache = {}

C5_OwnerEntriesRemoved ==
    /\ last.op \in MutationOps /\ last.outcome = "ok"
    /\ last.h_removed \cap KeysOf(last.user_id) # {}

\* C6: a mutation by meal id whose meal is absent or belongs to another owner
\* fails with a not-found error and performs no store write, no analyzer call
\* and no cache invalidation; no call of one owner changes or copies a meal of
\* another (the second user makes no mutation, so its row stays as it was).
C6_ForeignOrAbsentMealRejected ==
    /\ \A c \in Calls :
          (c.op \in ByIdOps /\ c.h_found \in {"absent", "foreign"}) =>
              /\ c.h_writes = 0 /\ c.h_analyzer = 0
              /\ c.h_cleared = {} /\ c.h_removed = {}
              /\ IF c.pc = "done"
                 THEN c.outcome = "error" /\ c.error \in NotFoundMessages
                 ELSE c.pc = "found"
    /\ \A w \in writes : w.by = w.owner
    /\ \A id \in MealIds :
          meals[id].user_id = U11 => (id = 2 /\ meals[id] = InitMeals[2])

C6_ForeignMealRejected ==
    /\ last.op \in ByIdOps /\ last.h_found = "foreign"
    /\ last.outcome = "error" /\ last.error \in NotFoundMessages
    /\ KeysOf(last.user_id) \cap CachedKeys # {}

\* C7: in a mutation the store write comes before the cache invalidation and
\* the invalidation before the return: a call has invalidated only after its
\* write, a call that returns has written, and a call that fails in validation
\* or in the store write has removed no cache entry.
C7_WriteThenInvalidateThenReturn ==
    \A c \in Calls :
        c.op \in MutationOps =>
            /\ c.h_cleared # {} => (c.h_writes >= 1 /\ c.pc = "done" /\ c.outcome = "ok")
            /\ c.h_removed # {} => c.h_cleared # {}
            /\ (c.pc = "done" /\ c.outcome = "ok") => c.h_writes >= 1
            /\ (c.pc = "done" /\ c.outcome = "error") => c.h_removed = {}

C7_FailedWriteKeepsEntries ==
    /\ last.op \in ByIdOps /\ last.h_found = "owned"
    /\ last.outcome = "error" /\ last.error = StoreError
    /\ KeysOf(last.user_id) \cap CachedKeys # {}

\* C8: a cache hit leaves the entry's timestamp unchanged: the timestamp stays
\* the time the entry was set, and no entry is served at or beyond the TTL
\* after that time, whatever reads it served in between.
C8_HitKeepsTimestamp ==
    /\ \A k \in DOMAIN mealsCache : mealsCache[k].timestamp = mealsCache[k].h_at
    /\ \A k \in DOMAIN userStatsCache :
          userStatsCache[k].timestamp = userStatsCache[k].h_at
    /\ \A c \in Calls : c.h_hit => c.h_since < CACHE_DURATION

C8_ServedEntryExpires ==
    /\ last.op \in ReadOps /\ last.outcome = "ok" /\ ~last.h_hit
    /\ last.h_had /\ last.h_served >= 1
    /\ last.h_since >= CACHE_DURATION /\ last.h_queries = 1

\* C9: a read whose key has a valid entry is a hit; it returns exactly the
\* payload the populating read stored and issues no store query.
C9_HitReturnsStoredPayload ==
    /\ \A c \in Calls :
          (c.op \in ReadOps /\ c.h_had /\ c.h_age < CACHE_DURATION) => c.h_hit
    /\ (last.op \in ReadOps /\ last.h_hit) =>
          /\ last.outcome = "ok"
          /\ last.cacheKey \in DOMAIN CacheOf(last.op)
          /\ last.result = CacheOf(last.op)[last.cacheKey].data
          /\ last.h_ver = CacheOf(last.op)[last.cacheKey].h_ver
          /\ last.h_queries = 0

C9_HitAfterStoreChanged ==
    /\ last.op \in ReadOps /\ last.h_hit
    /\ last.h_ver < wseq[last.user_id]

\* C10: a read that misses queries the store and, when the load succeeds,
\* stores the result under its own key with the current time before returning
\* that same result, so that a read of the key that follows at once is a hit.
C10_MissPopulates ==
    (last.op \in ReadOps /\ last.outcome = "ok" /\ ~last.h_hit) =>
        /\ last.h_queries >= 1
        /\ last.cacheKey \in DOMAIN CacheOf(last.op)
        /\ CacheOf(last.op)[last.cacheKey].data = last.result
        /\ CacheOf(last.op)[last.cacheKey].timestamp = now
        /\ IsHit(CacheOf(last.op), last.cacheKey, now)

C10_EmptyRangePopulated ==
    /\ last.op = "getRangeStatistics" /\ last.outcome = "ok" /\ ~last.h_hit
    /\ last.result.totalMeals = 0
    /\ IsHit(userStatsCache, last.cacheKey, now)

\* C11: whenever a read finds an expired entry under its key, that entry is no
\* longer in the cache when the read ends: the key is gone or holds a fresh
\* entry, also when the reload from the store fails.
C11_ExpiredEntryGone ==
    (last.op \in ReadOps /\ last.h_had /\ last.h_age >= CACHE_DURATION) =>
        \/ last.cacheKey \notin DOMAIN CacheOf(last.op)
        \/ Fresh(CacheOf(last.op)[last.cacheKey], now)

\* C14: a store failure during a service operation reaches the caller as the
\* store's own error: the call ends in an error, and the error is the store's.
C14_StoreErrorUnmodified ==
    last.h_storeFailed => (last.outcome = "error" /\ last.error = StoreError)


\* the favorite flag and the ratings a client-facing record must report for a
\* stored row: those of the row's additives attachment, false and 0 when absent
ReportsAttachment(record, row) ==
    LET additives == ObjOr(row, "additives_json")
        feedback == ObjOr(additives, "feedback")
    IN  /\ record.isFavorite = BoolOr(additives, "isFavorite")
        /\ record.tasteRating = Or0(feedback, "tasteRating")
        /\ record.satietyRating = Or0(feedback, "satietyRating")
        /\ record.energyRating = Or0(feedback, "energyRating")
        /\ record.heavinessRating = Or0(feedback, "heavinessRating")

\* C13: every client-facing meal record reports the favorite flag and the four
\* ratings as its additives attachment stores them: the records of getUserMeals
\* against the attachment they carry, the record of saveMeal and duplicateMeal
\* against the stored row while the owner's store is as the call wrote it.
C13_RecordsReportAttachment ==
    /\ (last.op = "getUserMeals" /\ last.outcome = "ok") =>
           \A i \in DOMAIN last.result : ReportsAttachment(last.result[i], last.result[i])
    /\ (last.op \in {"saveMeal", "duplicateMeal"} /\ last.outcome = "ok"
            /\ wseq[last.user_id] = last.h_wver) =>
           ReportsAttachment(last.result, meals[last.result.meal_id])


\* a stored row whose ingredients column is a string that cannot be decoded
Malformed(row) ==
    Has(row, "ingredients") /\ row.ingredients.kind = "string" /\ ~row.ingredients.parses

\* C12: a malformed ingredients payload never makes a read fail: the client view
\* of such a row has no ingredients, and a getUserMeals whose store answers
\* returns the owner's meals, that row with an empty ingredient sequence.
C12_MalformedIngredientsTolerated ==
    /\ \A id \in MealIds :
           Malformed(meals[id]) => transformMealForClient(meals[id]).ingredients = <<>>
    /\ (last.op = "getUserMeals" /\ ~last.h_storeFailed) =>
           /\ last.outcome = "ok"
           /\ {last.result[i].meal_id : i \in DOMAIN last.result} = OwnedBy(last.user_id)
           /\ \A i \in DOMAIN last.result :
                  Malformed(meals[last.result[i].meal_id]) =>
                      last.result[i].ingredients = <<>>


\* the meals of a user created from the first millisecond of the day startDate
\* to the last millisecond of the day endDate
RangeIds(user_id, startDate, endDate) ==
    {id \in MealIds :
        /\ meals[id].user_id = user_id
        /\ meals[id].created_at >= DayStart(startDate)
        /\ meals[id].created_at <= DayEnd(endDate)}

LastRangeIds == RangeIds(last.user_id, last.args.startDate, last.args.endDate)

\* C15: a getRangeStatistics over a range in which the owner has no meal, its
\* store query answering, does not fail and returns zero for the total and the
\* average of every tracked field and an empty daily breakdown.
C15_EmptyRangeAllZero ==
    (last.op = "getRangeStatistics" /\ ~last.h_storeFailed /\ LastRangeIds = {}) =>
        /\ last.outcome = "ok"
        /\ \A f \in NumericFieldSet :
               last.result.total[f] = 0 /\ last.result.average[f] = 0
        /\ last.result.dailyBreakdown = <<>>

\* an empty range of an owner who has meals outside it, while another owner
\* has a meal inside it
C15_EmptyRangeAmongMeals ==
    /\ last.op = "getRangeStatistics" /\ last.outcome = "ok" /\ LastRangeIds = {}
    /\ OwnedBy(last.user_id) # {}
    /\ \E id \in MealIds :
           /\ meals[id].user_id # last.user_id
           /\ meals[id].created_at >= DayStart(last.args.startDate)
           /\ meals[id].created_at <= DayEnd(last.args.endDate)


\* the UTC calendar days on which some of the meals `ids` were created
DaysOf(ids) ==
    {d \in DOMAIN IsoDates :
        \E id \in ids : /\ meals[id].created_at >= DayStart(IsoDates[d])
                        /\ meals[id].created_at <= DayEnd(IsoDates[d])}

\* x / n to the nearest whole number, halves upwards
DivRound(x, n) == (2 * x + n) \div (2 * n)

\* C16: for every tracked field, the average getRangeStatistics reports over a
\* range with meals is the field's reported total divided by the number of
\* distinct UTC calendar days on which the range has a meal (to the hundredth, as
\* every reported figure).
C16_AverageOverDistinctDays ==
    (last.op = "getRangeStatistics" /\ last.outcome = "ok" /\ LastRangeIds # {}) =>
        \A f \in NumericFieldSet :
            last.result.average[f] =
                DivRound(last.result.total[f], Cardinality(DaysOf(LastRangeIds)))

\* three meals on the first day and one on the second, with a total that
\* divides differently by the two days and by the four meals
C16_ThreeMealsAndOne ==
    /\ last.op = "getRangeStatistics" /\ last.outcome = "ok"
    /\ Cardinality(LastRangeIds) = 4
    /\ Cardinality({id \in LastRangeIds : meals[id].created_at <= DayEnd(D1)}) = 3
    /\ Cardinality(DaysOf(LastRangeIds)) = 2
    /\ last.result.total["calories"] # 0
    /\ last.result.average["calories"] = DivRound(last.result.total["calories"], 2)
    /\ last.result.average["calories"] # DivRound(last.result.total["calories"], 4)


RECURSIVE AllMeals(_)
\* the meals of all the day entries, one list after another
AllMeals(entries) ==
    IF entries = <<>> THEN <<>> ELSE Head(entries).meals \o AllMeals(Tail(entries))

Places(breakdown, id) ==
    UNION {{<<i, j>> : j \in {k \in DOMAIN breakdown[i].meals :
                                 breakdown[i].meals[k].meal_id = id}} :
              i \in DOMAIN breakdown}

\* C18: the daily breakdown of getRangeStatistics is a partition of the owner's
\* meals created from startDate 00:00:00.000 to endDate 23:59:59.999 UTC: each
\* such meal stands in exactly one day's list, that of its UTC creation day; the
\* lists hold no other meal; no list is empty.
C18_BreakdownPartitionsRange ==
    (last.op = "getRangeStatistics" /\ last.outcome = "ok") =>
        LET breakdown == last.result.dailyBreakdown IN
        /\ \A id \in LastRangeIds :
               /\ Cardinality(Places(breakdown, id)) = 1
               /\ \A pl \in Places(breakdown, id) :
                      /\ meals[id].created_at >= DayStart(breakdown[pl[1]].date)
                      /\ meals[id].created_at <= DayEnd(breakdown[pl[1]].date)
        /\ \A i \in DOMAIN breakdown :
               /\ breakdown[i].meals # <<>>
               /\ \A j \in DOMAIN breakdown[i].meals :
                      breakdown[i].meals[j].meal_id \in LastRangeIds

\* a range ending on the first day, with a meal in the last millisecond of that
\* day, a meal of the owner in the first millisecond of the next day and a meal
\* of another owner inside the range
C18_MealsAtTheBoundary ==
    /\ last.op = "getRangeStatistics" /\ last.outcome = "ok"
    /\ last.args.endDate = D1
    /\ \E id \in LastRangeIds : meals[id].created_at = DayEnd(D1)
    /\ \E id \in OwnedBy(last.user_id) : meals[id].created_at = DayStart(D2)
    /\ \E id \in MealIds \ OwnedBy(last.user_id) : meals[id].created_at <= DayEnd(D1)


\* C19: the daily breakdown entries of getRangeStatistics are in strictly
\* ascending order of their ISO date: an earlier entry has the smaller date, so
\* no date stands twice.
C19_BreakdownAscending ==
    (last.op = "getRangeStatistics" /\ last.outcome = "ok") =>
        \A i, j \in DOMAIN last.result.dailyBreakdown :
            i < j => StrLess(last.result.dailyBreakdown[i].date,
                             last.result.dailyBreakdown[j].date)

\* a breakdown of two days, the first of them with several meals
C19_TwoDayBreakdown ==
    /\ last.op = "getRangeStatistics" /\ last.outcome = "ok"
    /\ Len(last.result.dailyBreakdown) = 2
    /\ last.result.dailyBreakdown[1].date = D1
    /\ Len(last.result.dailyBreakdown[1].meals) >= 2


\* a stored row as the record the resolver is given: its numeric columns are
\* numbers, the others are not
AsClientRecord(row) ==
    [k \in DOMAIN row |->
        IF k \in NumericFieldSet THEN [kind |-> "number", q |-> Scale * row[k]]
        ELSE [kind |-> "other"]]

RECURSIVE SumResolved(_, _)
\* the resolver's values of field f over the meals `ids`, added up
SumResolved(ids, f) ==
    IF ids = {} THEN 0
    ELSE LET id == CHOOSE i \in ids : TRUE
         IN  getNutritionValue(AsClientRecord(meals[id]), f) + SumResolved(ids \ {id}, f)

\* C20: for every tracked field, the range total of getRangeStatistics is the
\* sum over the meals of the range of the resolver's value of the field for the
\* meal (totals are held in hundredths).
C20_TotalSumsResolver ==
    (last.op = "getRangeStatistics" /\ last.outcome = "ok") =>
        \A f \in NumericFieldSet :
            last.result.total[f] = 100 * SumResolved(LastRangeIds, f)


\* a value that is a number, or a string that reads as one
Numeric(v) == v.kind = "number" \/ (v.kind = "string" /\ v.parses)

\* a value the resolver takes: a positive number, or a string that reads as a number
Taken(v) == (v.kind = "number" /\ v.q > 0) \/ (v.kind = "string" /\ v.parses)

\* the last call, of getNutritionValue, was given a record that holds the
\* requested field under its own name
LastHoldsField ==
    /\ last.op = "getNutritionValue"
    /\ ~Has(last.args.data, "undefined")
    /\ Has(last.args.data, last.args.field)

\* C21, as stated: whenever the record holds a numeric value under the
\* requested name itself, getNutritionValue returns that value rounded to the
\* nearest integer, whatever the record holds under the other spellings.
C21_ExactNameAnyValue ==
    (LastHoldsField /\ Numeric(last.args.data[last.args.field])) =>
        last.result = MathRound(last.args.data[last.args.field].q)

\* C21, amended: whenever the record holds a positive number or a string that
\* reads as a number under the requested name itself, getNutritionValue returns
\* that value rounded to the nearest integer, whatever the record holds under
\* the other spellings.
C21_ExactNameFirst ==
    (LastHoldsField /\ Taken(last.args.data[last.args.field])) =>
        last.result = MathRound(last.args.data[last.args.field].q)

\* protein_g holds a positive number that is not whole, protein holds another
\* value the resolver would take, and the result is the rounded protein_g
C21_ExactNameBeatsAlias ==
    /\ LastHoldsField /\ last.args.field = "protein_g"
    /\ last.args.data["protein_g"].kind = "number"
    /\ last.args.data["protein_g"].q > 0
    /\ Scale * MathRound(last.args.data["protein_g"].q) # last.args.data["protein_g"].q
    /\ Has(last.args.data, "protein") /\ Taken(last.args.data["protein"])
    /\ MathRound(last.args.data["protein"].q) # MathRound(last.args.data["protein_g"].q)
    /\ last.result = MathRound(last.args.data["protein_g"].q)


\* the record without the fields whose value is not a positive number, held as
\* a number or as a string
PositiveOnly(data) ==
    [k \in {f \in DOMAIN data : Numeric(data[f]) /\ data[f].q > 0} |-> data[k]]

\* C23: a value that is zero or negative is treated as absent, whether it is a
\* number or a string that reads as one: getNutritionValue returns what it
\* returns for the record without these values, and never a negative number.
C23_NonPositiveIsAbsent ==
    (last.op = "getNutritionValue" /\ ~Has(last.args.data, "undefined")) =>
        /\ last.result >= 0
        /\ last.result = getNutritionValue(PositiveOnly(last.args.data), last.args.field)


\* C22: when the record holds a nutrient only under its short name,
\* getNutritionValue of the storage name returns the value under the short
\* name; and a field whose value is zero is passed over: the result is the one
\* for the record without that field.
C22_AliasResolves ==
    (last.op = "getNutritionValue" /\ ~Has(last.args.data, "undefined")) =>
        LET data == last.args.data IN
        /\ \A pr \in AliasPairs :
               (/\ last.args.field = pr[1]
                /\ ~Has(data, pr[1])
                /\ Has(data, pr[2]) /\ Taken(data[pr[2]])) =>
                   last.result = MathRound(data[pr[2]].q)
        /\ \A k \in DOMAIN data :
               (Numeric(data[k]) /\ data[k].q = 0) =>
                   last.result =
                       getNutritionValue([f \in (DOMAIN data) \ {k} |-> data[f]],
                                         last.args.field)


RECURSIVE SumStored(_, _)
\* the stored values of column f over the meals `ids`, a null one taken as 0
SumStored(ids, f) ==
    IF ids = {} THEN 0
    ELSE LET id == CHOOSE i \in ids : TRUE
         IN  (IF f \in DOMAIN meals[id] THEN meals[id][f] ELSE 0) + SumStored(ids \ {id}, f)

\* the meals of the owner of the last call created on the day of its argument
LastDayIds ==
    {id \in MealIds : /\ meals[id].user_id = last.user_id
                      /\ meals[id].created_at >= DayStart(last.args.date)
                      /\ meals[id].created_at < DayStart(last.args.date) + DayMs}

\* C24: getNutritionValue returns a number for every record and field, 0 for an
\* undefined record and when no field of the record holds a value it takes; and
\* getRangeStatistics and getDailyStats whose store query answers do not fail
\* and count a null column as 0.
C24_ResolutionAndAggregationTotal ==
    /\ last.op = "getNutritionValue" =>
           /\ last.outcome = "ok" /\ last.result \in Int
           /\ (\/ Has(last.args.data, "undefined")
               \/ \A k \in DOMAIN last.args.data : ~Taken(last.args.data[k])) =>
                  last.result = 0
    /\ (last.op = "getDailyStats" /\ ~last.h_storeFailed) =>
           /\ last.outcome = "ok"
           /\ last.result.calories = SumStored(LastDayIds, "calories")
           /\ last.result.protein = SumStored(LastDayIds, "protein_g")
           /\ last.result.meal_count = Cardinality(LastDayIds)
    /\ (last.op = "getRangeStatistics" /\ ~last.h_storeFailed) =>
           /\ last.outcome = "ok"
           /\ \A f \in NumericFieldSet :
                  last.result.total[f] = 100 * SumStored(LastRangeIds, f)

\* daily statistics over a day with two meals, one of them with null calories
C24_DayWithNullColumn ==
    /\ last.op = "getDailyStats" /\ last.outcome = "ok"
    /\ last.result.meal_count = 2
    /\ \E id \in LastDayIds : "calories" \notin DOMAIN meals[id]
    /\ last.result.calories # 0


\* the resolved value of nutrient n of a record: the resolver's value under the
\* storage name, or else under the short name
Resolved(x, n) ==
    IF getNutritionValue(x, Spellings[n][1]) # 0
    THEN getNutritionValue(x, Spellings[n][1])
    ELSE getNutritionValue(x, Spellings[n][2])

RECURSIVE ResolvedSum(_, _)
ResolvedSum(ingredients, n) ==
    IF ingredients = <<>> THEN 0
    ELSE Resolved(Head(ingredients), n) + ResolvedSum(Tail(ingredients), n)

\* the ingredient list the last call, of calculateTotalNutrition, works on
LastIngredients ==
    IF Len(last.args.editedIngredients) > 0 THEN last.args.editedIngredients
    ELSE IF Has(last.args.analysisData, "ingredients")
         THEN last.args.analysisData.ingredients.items
         ELSE <<>>

\* C25: for a meal with a non-empty ingredient list, each nutrient's total is
\* the sum of the resolved values of its ingredients, and when that sum is zero
\* it is the meal-level resolved value (totals count 1/Scale).
C25_SumThenFallback ==
    (last.op = "calculateTotalNutrition" /\ Len(LastIngredients) > 0) =>
        \A n \in DOMAIN Spellings :
            last.result[n] =
                IF ResolvedSum(LastIngredients, n) # 0
                THEN Scale * ResolvedSum(LastIngredients, n)
                ELSE Scale * Resolved(last.args.analysisData, n)


\* C26: duplicateMeal on a meal the caller owns, with a new date, creates
\* exactly one row: the rows already there, the original among them, stay as
\* they are, and the new row belongs to the caller, is dated at the new date
\* and carries the nutrient columns of the original as the call read it.
C26_DuplicateCreatesOne ==
    [][\A p \in Procs :
          (/\ procs[p].op = "duplicateMeal" /\ procs[p].pc = "found"
           /\ procs'[p].pc = "fin") =>
              LET rec == procs[p]
                  originalMeal == rec.local.meal
                  new == Cardinality(MealIds) + 1
              IN  /\ DOMAIN meals' = MealIds \cup {new}
                  /\ \A k \in MealIds : meals'[k] = meals[k]
                  /\ originalMeal.meal_id = ParseInt(rec.args.meal_id)
                  /\ originalMeal.user_id = rec.user_id
                  /\ meals'[new].user_id = rec.user_id
                  /\ meals'[new].created_at = ParseDate(rec.args.newDate) * DayMs
                  /\ \A i \in DOMAIN NumericFields :
                        /\ Has(meals'[new], NumericFields[i]) = Has(originalMeal, NumericFields[i])
                        /\ Has(originalMeal, NumericFields[i]) =>
                              meals'[new][NumericFields[i]] = originalMeal[NumericFields[i]]
      ]_vars

C26_DuplicateReturned ==
    /\ last.op = "duplicateMeal" /\ last.outcome = "ok"
    /\ Cardinality(MealIds) = Len(InitMeals) + 1
    /\ meals[Cardinality(MealIds)].user_id = last.user_id
    /\ meals[Cardinality(MealIds)].created_at = ParseDate(last.args.newDate) * DayMs
    /\ meals[Cardinality(MealIds)].created_at # meals[ParseInt(last.args.meal_id)].created_at
    /\ meals[Cardinality(MealIds)].calories = meals[ParseInt(last.args.meal_id)].calories


\* C28: analyzeMeal reports a timeout of the analyzer with a message of its
\* own and any other failure of the analyzer with another one, in both cases
\* without a result; a failure that is not the 60-second timeout is never
\* reported with the timeout's message.
C28_TimeoutToldApart ==
    (last.op = "updateMeal" /\ last.h_cause # "none") =>
        /\ last.outcome = "error" /\ last.result = EmptyObj
        /\ TimeoutMessage # FailureMessage
        /\ last.h_cause = "timer" => last.error = TimeoutMessage
        /\ last.h_cause = "analyzer" => last.error = FailureMessage


\* C30: clearAllCaches leaves both caches empty, for every owner, and the store
\* as it was; a read that starts next finds no entry under its key.
C30_ClearAllCachesEmpties ==
    [][/\ last'.op = "clearAllCaches" =>
              /\ userStatsCache' = EmptyCache /\ mealsCache' = EmptyCache
              /\ meals' = meals /\ users' = users
       /\ (last.op = "clearAllCaches" /\ started' # started) =>
              /\ ~(last'.op \in ReadOps /\ (last'.h_hit \/ last'.h_had))
              /\ \A p \in Procs :
                    (procs[p].op = "none" /\ procs'[p].op \in ReadOps) =>
                        ~procs'[p].h_had /\ procs'[p].h_queries = 0
      ]_vars

C30_BothCachesCleared ==
    /\ last.op = "clearAllCaches"
    /\ \E k \in last.h_removed : k[1] = "u"
    /\ \E k \in last.h_removed : k[1] # "u"
    /\ userStatsCache = EmptyCache /\ mealsCache = EmptyCache


\* the cache a read looks in
CacheFor(op, stats, list) == IF op = "getUserMeals" THEN list ELSE stats

\* C27: two reads of one key that run at the same time, the key missing from
\* the cache, both end with a result computed from a load of the store; the
\* cache then holds one entry under the key, with the result of the read that
\* ended last; and the two results are equal when no row of the owner was
\* written between the two loads. Stated on the step that ends the second read:
\* the entry it finds under its key, put there while it was in flight, holds
\* the result it returns.
C27_ConcurrentReadsAgree ==
    [][\A p \in Procs :
          LET rec == procs[p]
              cache == CacheFor(rec.op, userStatsCache, mealsCache)
              after == CacheFor(rec.op, userStatsCache', mealsCache')
          IN  (/\ rec.op \in ReadOps /\ rec.pc = "cont"
               /\ procs'[p].pc = "idle" /\ last'.outcome = "ok") =>
                  /\ ~rec.h_hit /\ rec.h_queries = 1
                  /\ rec.cacheKey \in DOMAIN after
                  /\ after[rec.cacheKey].data = last'.result
                  /\ (/\ ~rec.h_had
                      /\ rec.cacheKey \in DOMAIN cache
                      /\ cache[rec.cacheKey].h_ver = rec.local.ver) =>
                         cache[rec.cacheKey].data = last'.result
      ]_vars


\* C29: no call blocks for ever. Every call in flight comes to an end, with a
\* result or an error, when each store call returns or fails, and updateMeal,
\* through analyzeMeal, does so although the analyzer never answers.
C29_EveryCallEnds ==
    \A p \in Procs : (procs[p].pc # "idle") ~> (procs[p].pc = "idle")

C29_TimedOutUpdate ==
    /\ last.op = "updateMeal" /\ last.h_cause = "timer"
    /\ last.outcome = "error" /\ last.error = TimeoutMessage
    /\ last.h_analyzer = 1


----------------------------------------------------------------------------
\* The cache keys of the reads, as functions of the caller and the parameters

\* the cacheKey a read computes before it looks into its cache
CacheKey(read) ==
    CASE read.operation = "getUserMeals" ->
             UserMealsKey(read.owner, read.offset, read.limit)
      [] read.operation = "getRangeStatistics" ->
             RangeKey(read.owner, read.startDate, read.endDate)
      [] read.operation = "getDailyStats" -> DailyKey(read.owner, read.date)

CacheKeys ==
    /\ Has(last.args, "first")
    /\ ClientCall("cacheKey", [first |-> CacheKey(last.args.first),
                               second |-> CacheKey(last.args.second)])

\* Two reads are drawn: owner ids and dates are the strings the callers pass,
\* an id or a date with an underscore among them; offsets and limits are numbers
InitKeys ==
    LET owners == UserIds \cup {U1 \o <<"_", "2">>}
        dates == {D1, D2, <<"2", "_">> \o D1}
        reads ==
            {[operation |-> "getUserMeals", owner |-> o, offset |-> pg[1], limit |-> pg[2]] :
                 o \in owners, pg \in {<<0, 100>>, <<10, 0>>, <<1, 0>>}}
            \cup {[operation |-> "getRangeStatistics", owner |-> o,
                   startDate |-> d, endDate |-> e] : o \in owners, d \in dates, e \in {D1, D2}}
            \cup {[operation |-> "getDailyStats", owner |-> o, date |-> d] :
                      o \in owners, d \in dates}
    IN  /\ meals = InitMeals
        /\ users = [u \in UserIds |-> [user_id |-> u, ai_requests_count |-> 0]]
        /\ userStatsCache = EmptyCache
        /\ mealsCache = EmptyCache
        /\ now = NowBase
        /\ procs = [p \in Procs |-> Idle]
        /\ immediates = <<>>
        /\ wseq = [u \in UserIds |-> 0]
        /\ retSeq = [u \in UserIds |-> 0]
        /\ writes = {}
        /\ started = 0
        /\ budget = 0
        /\ \E first \in reads, second \in reads :
               last = [Idle EXCEPT !.args = [first |-> first, second |-> second]]

SpecKeys == InitKeys /\ [][CacheKeys]_vars

----------------------------------------------------------------------------
\* The statistics of one day, from stores whose quantities have three decimals

\* Math.round(val * 100) / 100 of a total held in thousandths, in thousandths
RoundHundredths(val) == 10 * Round2(val, 1000)

\* getDailyStats(date) and getRangeStatistics(date, date) of one owner, both
\* computed from the rows the store holds now
StatsOfDay ==
    LET user_id == last.args.user_id
        date == last.args.date
        daily == FindDailyMeals(user_id, DayStart(date), DayStart(date) + DayMs)
    IN  /\ Has(last.args, "date")
        /\ \E meals_ \in FindRangeMeals(user_id, DayStart(date), DayEnd(date)) :
               ClientCall("statsOfDay",
                          [daily |-> DailyStats(daily),
                           range |-> [totalMeals |-> Len(meals_),
                                      total |-> [f \in DailySelect |->
                                                    RoundHundredths(SumField(meals_, f))]]])

\* Stores of rows saved with quantities in thousandths: whole ones, ones with
\* two decimals and ones with three, on the first day up to its last
\* millisecond, in the first millisecond of the second day and of the other owner
InitDay ==
    LET datas ==
            <<<<[name |-> "Oats", calories |-> 500000, protein |-> 30250], U1, DayMs \div 2>>,
              <<[name |-> "Nuts", calories |-> 120125, protein_g |-> 4005], U1, DayMs - 1>>,
              <<[name |-> "Soup", calories |-> 201000, sugar_g |-> 1333], U1, DayMs>>,
              <<[name |-> "Rice", calories |-> 300000], U11, DayMs \div 2 + 1>>,
              <<[name |-> "Fix", calories |-> -100000, fiber_g |-> 2500], U1, DayMs + 1000>>>>
        row(i) == MapMealDataToPrismaFields(datas[i][1], datas[i][2], <<>>, "", datas[i][3])
    IN  /\ \E chosen \in SUBSET DOMAIN datas :
               meals = [n \in DOMAIN InIdOrder(chosen) |->
                            With(row(InIdOrder(chosen)[n]), "meal_id", n)]
        /\ users = [u \in UserIds |-> [user_id |-> u, ai_requests_count |-> 0]]
        /\ userStatsCache = EmptyCache
        /\ mealsCache = EmptyCache
        /\ now = NowBase
        /\ procs = [p \in Procs |-> Idle]
        /\ immediates = <<>>
        /\ wseq = [u \in UserIds |-> 0]
        /\ retSeq = [u \in UserIds |-> 0]
        /\ writes = {}
        /\ started = 0
        /\ budget = 0
        /\ \E user_id \in UserIds, date \in {D1, D2} :
               last = [Idle EXCEPT !.args = [user_id |-> user_id, date |-> date]]

SpecDay == InitDay /\ [][StatsOfDay]_vars

----------------------------------------------------------------------------
\* DatabaseOptimizationService.performIntelligentCleanup. The tables it cleans
\* are held in db: sessions, aiRecommendations, chatMessages and dailyGoals,
\* each a set of rows whose instants are held in seconds.

\* The transaction at time t on db. failAt is the statement of the callback
\* that throws (1 sessions, 2 recommendations, 3 chat messages, 4 daily
\* goals), 5 when the commit fails and 0 when nothing does. The result is what
\* the call returns, freedSpace in thousandths, with the tables afterwards:
\* a transaction that threw is rolled back.
performIntelligentCleanup(db, t, failAt) ==
    LET reached(k) == failAt = 0 \/ failAt > k
        expiredSessions == {r \in db.sessions : r.expiresAt < t}
        thirtyDaysAgo == t - 30 * (DayMs \div 1000)
        oldRecommendations == {r \in db.aiRecommendations : r.created_at < thirtyDaysAgo}
        \* orderBy created_at desc, skip 100, for each user
        oldMessages ==
            {m \in db.chatMessages :
                Cardinality({k \in db.chatMessages :
                                /\ k.user_id = m.user_id
                                /\ k.created_at > m.created_at}) >= 100}
        ninetyDaysAgo == t - 90 * (DayMs \div 1000)
        oldGoals == {r \in db.dailyGoals : r.created_at < ninetyDaysAgo}
        deletedRecords ==
            (IF reached(1) THEN Cardinality(expiredSessions) ELSE 0)
            + (IF reached(2) THEN Cardinality(oldRecommendations) ELSE 0)
            + (IF reached(4) THEN Cardinality(oldGoals) ELSE 0)
    IN  IF failAt = 0
        THEN [deletedRecords |-> deletedRecords, freedSpace |-> deletedRecords,
              errors |-> <<>>,
              db |-> [sessions |-> db.sessions \ expiredSessions,
                      aiRecommendations |-> db.aiRecommendations \ oldRecommendations,
                      chatMessages |-> db.chatMessages \ oldMessages,
                      dailyGoals |-> db.dailyGoals \ oldGoals]]
        ELSE [deletedRecords |-> deletedRecords, freedSpace |-> 0,
              errors |-> <<"Transaction failed">>, db |-> db]

PerformIntelligentCleanup ==
    /\ Has(last.args, "db")
    /\ \E failAt \in 0..5 :
           ClientCall("performIntelligentCleanup",
                      performIntelligentCleanup(last.args.db, now \div 1000, failAt))

\* Tables with sessions that have and have not expired, recommendations and
\* daily goals on both sides of their limits, and users with fewer than, with
\* exactly and with more than the 100 chat messages kept
InitCleanup ==
    LET t == NowBase \div 1000
        day == DayMs \div 1000
        rows(ats, f) == {[id |-> i, user_id |-> U1] @@ (f :> ats[i]) : i \in DOMAIN ats}
        messages(user_id, n) ==
            {[message_id |-> i, user_id |-> user_id, created_at |-> t - i] : i \in 1..n}
    IN  /\ meals = InitMeals
        /\ users = [u \in UserIds |-> [user_id |-> u, ai_requests_count |-> 0]]
        /\ userStatsCache = EmptyCache
        /\ mealsCache = EmptyCache
        /\ now = NowBase
        /\ procs = [p \in Procs |-> Idle]
        /\ immediates = <<>>
        /\ wseq = [u \in UserIds |-> 0]
        /\ retSeq = [u \in UserIds |-> 0]
        /\ writes = {}
        /\ started = 0
        /\ budget = 0
        /\ \E sessions \in SUBSET rows(<<t - 1, t, t - day>>, "expiresAt"),
              aiRecommendations \in
                  SUBSET rows(<<t - 30 * day - 1, t - 30 * day>>, "created_at"),
              dailyGoals \in
                  SUBSET rows(<<t - 91 * day, t - day>>, "created_at"),
              n1 \in {0, 100, 102}, n11 \in {0, 101} :
                  last = [Idle EXCEPT !.args =
                             [db |-> [sessions |-> sessions,
                                      aiRecommendations |-> aiRecommendations,
                                      chatMessages |-> messages(U1, n1) \cup messages(U11, n11),
                                      dailyGoals |-> dailyGoals]]]

SpecCleanup == InitCleanup /\ [][PerformIntelligentCleanup]_vars

\* the favorite flag stored with meal id
StoredFavorite(id) == BoolOr(AsJsonObject(meals[id], "additives_json"), "isFavorite")

\* C31: when the toggleMealFavorite calls on a meal have all completed, the
\* stored flag is the initial flag flipped once for each of them, and the last
\* call returned the flag it wrote. In this workload the only writes to the
\* rows of user "1" are those of the toggles of meal 1 that completed, counted
\* by wseq, and the flag of meal 1 is initially not set.
C31_FlippedOncePerCall ==
    (\A p \in Procs : procs[p].pc = "idle") =>
        /\ StoredFavorite(1) = (wseq[U1] % 2 = 1)
        /\ (last.op = "toggleMealFavorite" /\ last.outcome = "ok") =>
               last.result.isFavorite = StoredFavorite(1)

\* the feedback stored with meal id
StoredFeedback(id) == AsJsonObject(AsJsonObject(meals[id], "additives_json"), "feedback")

\* C32: the write of saveMealFeedback leaves the favorite flag of every meal
\* as it is stored, and the write of toggleMealFavorite leaves the feedback of
\* every meal as it is stored, so that feedback saved by a completed call is
\* still there; also when the two calls run at once on one meal.
C32_FeedbackAndFavoriteApart ==
    [][\A p \in Procs :
          /\ (/\ procs[p].op = "saveMealFeedback" /\ procs[p].pc = "found"
              /\ procs'[p].pc = "fin") =>
                 \A id \in MealIds : StoredFavorite(id)' = StoredFavorite(id)
          /\ (/\ procs[p].op = "toggleMealFavorite" /\ procs[p].pc = "found"
              /\ procs'[p].pc = "fin") =>
                 \A id \in MealIds : StoredFeedback(id)' = StoredFeedback(id)
      ]_vars

\* the store write of an updateMeal call in slot p lands in this step
UpdateLands(p) ==
    /\ procs[p].op = "updateMeal" /\ procs[p].pc = "write"
    /\ procs'[p].pc = "fin"

\* C33: the write of a successful updateMeal leaves the additives attachment
\* of the meal, its favorite flag and its feedback, as they are stored.
C33_UpdateKeepsAdditives ==
    [][\A p \in Procs :
          UpdateLands(p) =>
              \A id \in {procs[p].local.meal_id} :
                  /\ StoredFavorite(id)' = StoredFavorite(id)
                  /\ StoredFeedback(id)' = StoredFeedback(id)
      ]_vars

\* C34: the write of a successful updateMeal leaves the creation timestamp of
\* the meal as it is stored, so that the meal stays on the calendar day the
\* statistics count it under.
C34_UpdateKeepsCreation ==
    [][\A p \in Procs :
          UpdateLands(p) =>
              \A id \in {procs[p].local.meal_id} :
                  /\ meals'[id].created_at = meals[id].created_at
                  /\ meals'[id].created_at \div DayMs = meals[id].created_at \div DayMs
      ]_vars

\* C35: two reads that differ in the operation, the owner or the parameters
\* never compute the same cache key, so that a read is only served an entry
\* its own operation, owner and parameters populated.
C35_KeysTellReadsApart ==
    (last.op = "cacheKey" /\ last.args.first # last.args.second) =>
        last.result.first # last.result.second

\* the step is one of a read in slot p: its start, its query or its end
ReadStep(p) ==
    /\ procs'[p] # procs[p]
    /\ \/ procs[p].op \in ReadOps
       \/ procs'[p].op \in ReadOps
       \/ procs[p].op = "none" /\ last'.op \in ReadOps

\* C36: no step of a read changes the store, and every step of a read but
\* the one it returns its result with leaves both caches as they are: a read
\* that fails, on a store error or while it processes the rows, has added no
\* entry, removed none and changed no timestamp.
C36_FailedReadLeavesCaches ==
    [][\A p \in Procs :
          ReadStep(p) =>
              /\ meals' = meals /\ users' = users
              /\ last'.outcome # "ok" =>
                     /\ userStatsCache' = userStatsCache
                     /\ mealsCache' = mealsCache
      ]_vars

C36_ProcessingFailed ==
    /\ last.op = "getUserMeals" /\ last.outcome = "error" /\ ~last.h_storeFailed
    /\ DOMAIN userStatsCache # {}

\* C37: for an owner and a date, getDailyStats of the date and
\* getRangeStatistics from the date to the date, computed from the same
\* store, agree: meal_count is totalMeals and calories, protein, carbs, fat,
\* fiber and sugar are the totals of calories, protein_g, carbs_g, fats_g,
\* fiber_g and sugar_g.
C37_DailyAgreesWithRange ==
    last.op = "statsOfDay" =>
        LET daily == last.result.daily
            range == last.result.range
        IN  /\ daily.meal_count = range.totalMeals
            /\ daily.calories = range.total.calories
            /\ daily.protein = range.total.protein_g
            /\ daily.carbs = range.total.carbs_g
            /\ daily.fat = range.total.fats_g
            /\ daily.fiber = range.total.fiber_g
            /\ daily.sugar = range.total.sugar_g

\* C38: removing an ingredient from the edited list never increases a total
\* of calculateTotalNutrition: each of calories, protein, carbs, fat, fiber,
\* sugar and sodium is at most what it was before, also when the ingredient
\* removed was the last of the list.
C38_RemovalNeverIncreases ==
    last.op = "handleRemoveIngredient" =>
        \A n \in DOMAIN Spellings : last.result[n] <= last.local.totals[n]

\* C39: when the analyses of a user have all completed and the request-count
\* updates they queued have all run, ai_requests_count has grown by one for
\* each analysis whose analyzer call succeeded, also when analyses ran at
\* once; an update the store rejected, which analyzeMeal only logs, is not
\* counted.
C39_CountedOncePerAnalysis ==
    ((\A p \in Procs : procs[p].pc = "idle") /\ immediates = <<>>) =>
        \A u \in UserIds : users[u].ai_requests_count = users[u].h_counted

\* C40: the deletedRecords performIntelligentCleanup reports is the number of
\* rows it removed: the sessions, recommendations, chat messages and daily
\* goals that are in the tables before the call and not after it, which is 0
\* when the transaction failed and was rolled back.
C40_DeletedRecordsAreRemoved ==
    last.op = "performIntelligentCleanup" =>
        LET before == last.args.db
            after == last.result.db
        IN  last.result.deletedRecords =
                Cardinality(before.sessions \ after.sessions)
                + Cardinality(before.aiRecommendations \ after.aiRecommendations)
                + Cardinality(before.chatMessages \ after.chatMessages)
                + Cardinality(before.dailyGoals \ after.dailyGoals)

====
